---- MODULE Spec2Model ----
(***************************************************************************)
(* Model of the Injective Market Intelligence API data-acquisition core:   *)
(* CacheService (time-boxed key/value store), InjectiveService (rate       *)
(* limiter, endpoint-variant fallback, timeout, normalisation) and         *)
(* ApiMetricsService (capped call history).                                *)
(*                                                                         *)
(* Time is Date.now() in milliseconds.  JavaScript runs one callback at a  *)
(* time, so every action is one synchronous run of code between two        *)
(* awaits; callers interleave only at awaits (the pending fetch).          *)
(***************************************************************************)
EXTENDS Integers, Sequences, FiniteSets, TLC

\* ------------------------------------------------------------------ bounds
MaxRateLimit == 3       \* rateLimitPerMinute is 1 or MaxRateLimit
MaxTicks == 1           \* clock advances while two callers run
MaxFaults == 2          \* failed attempts while two callers run
MaxSoloTicks == 2       \* clock advances while one caller runs alone
MaxSoloFaults == 3      \* failed attempts while one caller runs alone
MaxCacheTicks == 3      \* clock advances while the cache is exercised alone
MaxApiFaults == 3       \* failed attempts while HTTP requests are served
MaxApiTicks == 1        \* clock advances while HTTP requests are served
MaxStaleTicks == 4      \* clock advances while summaries are served, metrics off
MaxStaleRequests == 3   \* summary requests received, metrics off
MaxStaleFaults == 1     \* failed attempts while summaries are served, metrics off

\* ------------------------------------------------------- program constants
WindowMs == 60000                       \* 60 * 1000, checkRateLimit
INJECTIVE_API_TIMEOUT_MS == 10000       \* env default
INJECTIVE_API_CACHE_TTL_MS == 5000      \* env default
maxMetrics == 10000                     \* ApiMetricsService.maxMetrics

\* Concurrent callers of the one InjectiveService instance, one operation each.
Callers == {1, 2}
EndpointTypes == {"markets", "orderbook", "trades"}
MarketIds == {"inj-usdt", "timeout-usdt"}

\* The clock advances by one of these amounts: the request timeout (so that
\* the cache TTL has passed and the abort timer is due) or a whole window.
ClockSteps == {INJECTIVE_API_TIMEOUT_MS, WindowMs}

\* endpointVariants[endpointType]: three path forms, tried in this order.
endpointVariants ==
  [t \in EndpointTypes |->
     IF t = "markets" THEN <<"/api/exchange/v1/markets", "/markets", "/api/v1/markets">>
     ELSE IF t = "orderbook"
       THEN <<"/api/exchange/v1/orderbooks", "/orderbook", "/api/v1/orderbook">>
       ELSE <<"/api/exchange/v1/trades", "/trades", "/api/v1/trades">>]

NumVariants(t) == Len(endpointVariants[t])

\* The operations a caller can start: getMarkets(), getOrderbook(marketId),
\* getRecentTrades(marketId, limit), the last with the default limit of 120.
Ops ==
  {[type |-> "markets", marketId |-> "", limit |-> 0]}
  \cup {[type |-> "orderbook", marketId |-> m, limit |-> 0] : m \in MarketIds}
  \cup {[type |-> "trades", marketId |-> "inj-usdt", limit |-> 120]}

NoOp == [type |-> "none", marketId |-> "", limit |-> 0]

\* pathSuffix: '' | `/${encodeURIComponent(id)}` | `/${id}?limit=${limit}`
PathSuffix(o) ==
  IF o.type = "markets" THEN ""
  ELSE IF o.type = "orderbook" THEN "/" \o o.marketId
  ELSE "/" \o o.marketId \o "?limit=" \o ToString(o.limit)

\* endpoint = `${endpointType}${pathSuffix}`: the rate-limit and metrics label.
EndpointLabel(o) == o.type \o PathSuffix(o)

\* buildSummary's getRecentTrades for a lookback of 3: limit 3 * 60.
BuildOps == {[type |-> "trades", marketId |-> "inj-usdt", limit |-> 180]}

\* The getRecentTrades(market.id, 120) calls of the active-markets ranking.
FanOutOps == {[type |-> "trades", marketId |-> m, limit |-> 120] : m \in MarketIds}

Labels == {EndpointLabel(o) : o \in Ops \cup FanOutOps \cup BuildOps}

\* cacheKey: 'injective:markets' | `injective:orderbook:${id}` |
\* `injective:trades:${id}:${limit}`
CacheKey(o) ==
  IF o.type = "markets" THEN "injective:markets"
  ELSE IF o.type = "orderbook" THEN "injective:orderbook:" \o o.marketId
  ELSE "injective:trades:" \o o.marketId \o ":" \o ToString(o.limit)

CacheKeys == {CacheKey(o) : o \in Ops \cup FanOutOps \cup BuildOps}

VARIABLES
  now,                 \* Date.now()
  rateLimitPerMinute,  \* InjectiveService.rateLimitPerMinute (env)
  enableMetrics,       \* InjectiveService.enableMetrics (env)
  store,               \* CacheService.store: key -> [value, expiresAt]
  rateLimitTracker,    \* InjectiveService.rateLimitTracker: label -> timestamps
  metrics,             \* ApiMetricsService.metrics: the call history
  pc,                  \* per caller: "idle" | "fetching" | "done" | "failed"
  op,                  \* per caller: the operation in progress
  variantIdx,          \* per caller: index of the variant being tried
  startTime,           \* per caller: fetchWithTimeout's startTime
  lastError,           \* per caller: tryEndpoints' lastError
  result,              \* per caller: the value or error the operation ended with
  ticks,               \* number of clock advances so far
  faults,              \* number of failed attempts so far
  concurrency,         \* how many callers use the service directly (0: only the controllers)
  attempts,            \* history, per caller: the variant attempts of the operation
  issued,              \* history, per label: instants at which fetch() was called
  lastSet,             \* history, per cache key: the latest direct set() call
  lastGet,             \* history: the latest direct get() call and what it returned
  request,             \* the HTTP request being served, its stage and its reply
  requests,            \* number of HTTP requests received so far
  summaryCache,        \* markets controller: `cache` (CacheService.store)
  summarySources,      \* history, per summary key: when the data of the summary
                       \* cached last were fetched, and when it was built
  routeMetrics,        \* metrics controller: its InjectiveService's call history
  served,              \* history: the failure replies sent, with their cause
  calc                 \* the latest direct call of an exported function: arguments, result

vars == <<now, rateLimitPerMinute, enableMetrics, store, rateLimitTracker, metrics,
          pc, op, variantIdx, startTime, lastError, result, ticks, faults,
          concurrency, attempts, issued, lastSet, lastGet,
          request, requests, summaryCache, summarySources, routeMetrics, served,
          calc>>

\* What no action of the client changes: its configuration, and the history of
\* direct cache calls.
config == <<rateLimitPerMinute, enableMetrics, concurrency, lastSet, lastGet>>

\* The state of the controllers, which the service itself never touches.
http == <<request, requests, summaryCache, summarySources, routeMetrics, served>>

fixed == <<config, http, calc>>


\* ------------------------------------------------------------ CacheService
\* Mutant of CacheExpired: an entry is stale from its expiry instant on.
CacheExpiredAtExpiry(entry, t) == t >= entry.expiresAt

\* get(): `Date.now() > entry.expiresAt` decides that an entry is stale.
CacheExpired(entry, t) == t > entry.expiresAt

\* Mutant of CacheHit: an entry is served whatever its age.
CacheHitWhateverAge(st, key, t) == key \in DOMAIN st

\* get() returns the stored value (a hit) rather than null.
CacheHit(st, key, t) == key \in DOMAIN st /\ ~CacheExpired(st[key], t)

\* The store after get(key): a stale entry is deleted, anything else is kept.
CacheAfterGet(st, key, t) ==
  IF key \in DOMAIN st /\ CacheExpired(st[key], t)
    THEN [k \in DOMAIN st \ {key} |-> st[k]]
    ELSE st

\* Mutant of CacheSet: the expiry instant is the TTL itself, the clock left out.
CacheSetNoClock(st, key, value, ttlMs, t) ==
  [k \in DOMAIN st \cup {key} |->
     IF k = key THEN [value |-> value, expiresAt |-> ttlMs] ELSE st[k]]

\* set(key, value, ttlMs): expiresAt = Date.now() + ttlMs.
CacheSet(st, key, value, ttlMs, t) ==
  [k \in DOMAIN st \cup {key} |->
     IF k = key THEN [value |-> value, expiresAt |-> t + ttlMs] ELSE st[k]]

\* set(key, value) with the instance default (InjectiveService passes
\* INJECTIVE_API_CACHE_TTL_MS to the constructor).
CacheSetDefault(st, key, value, t) ==
  CacheSet(st, key, value, INJECTIVE_API_CACHE_TTL_MS, t)

\* ------------------------------------------------------- ApiMetricsService
\* A history that keeps its first maxMetrics entries.
recordCallKeepsOldest(hist, m) ==
  LET h == Append(hist, m)
  IN IF Len(h) > maxMetrics THEN SubSeq(h, 1, maxMetrics) ELSE h

\* recordCall: push, then keep the last maxMetrics entries.
recordCall(hist, m) ==
  LET h == Append(hist, m)
  IN IF Len(h) > maxMetrics THEN SubSeq(h, Len(h) - maxMetrics + 1, Len(h)) ELSE h

\* -------------------------------------------------------- checkRateLimit
\* Mutant of RecentTimestamps: a timestamp exactly 60 seconds old is kept.
RecentTimestampsInclusive(ts, t) == SelectSeq(ts, LAMBDA x : x >= t - WindowMs)

\* timestamps.filter((ts) => ts > windowStart)
RecentTimestamps(ts, t) == SelectSeq(ts, LAMBDA x : x > t - WindowMs)

\* Mutant of RateLimitExceeded: the check throws only above the budget.
RateLimitExceededAbove(ts, t, limit) == Len(RecentTimestamps(ts, t)) > limit

\* recent.length >= this.rateLimitPerMinute: the check throws.
RateLimitExceeded(ts, t, limit) == Len(RecentTimestamps(ts, t)) >= limit

\* recent.push(now); rateLimitTracker.set(endpoint, recent)
RateLimitRecord(ts, t) == Append(RecentTimestamps(ts, t), t)

\* ------------------------------------------------------------------ errors
NoLabel == ""
NoError == [kind |-> "none", status |-> 0, endpoint |-> NoLabel]
\* `Rate limit exceeded for ${endpoint}. Max ${n} requests per minute.`
RateLimitError(label) == [kind |-> "rate_limit", status |-> 0, endpoint |-> label]
\* `Request timeout after ${this.timeout}ms`
TimeoutError == [kind |-> "timeout", status |-> 0, endpoint |-> NoLabel]
\* what fetch() rejects with on a network failure: TypeError 'fetch failed'
NetworkError == [kind |-> "network", status |-> 0, endpoint |-> NoLabel]
\* `API error: ${response.status} ${response.statusText}`
ApiError(status) == [kind |-> "api", status |-> status, endpoint |-> NoLabel]
\* `All endpoint variants failed for ${endpointType}`
AllFailedError == [kind |-> "all_failed", status |-> 0, endpoint |-> NoLabel]

\* String.includes on a market identifier.
IdIncludes(marketId, word) == marketId = "timeout-usdt" /\ word = "timeout"

\* String.includes on an endpoint label: the endpoint types hold none of the
\* words, and encodeURIComponent keeps the identifier's letters.
LabelIncludes(label, word) ==
  \E o \in Ops : EndpointLabel(o) = label /\ IdIncludes(o.marketId, word)

\* lastError.message.includes(word), for the words tryEndpoints looks for.
MessageIncludes(e, word) ==
  CASE e.kind = "timeout" -> word = "timeout"
    [] e.kind = "network" -> word = "fetch"
    [] e.kind = "rate_limit" ->
         word = "Rate limit" \/ LabelIncludes(e.endpoint, word)
    [] OTHER -> FALSE

\* Mutant of AfterCatch: a timeout leaves tryEndpoints like a rate-limit error.
AfterCatchTimeoutThrows(e) ==
  IF MessageIncludes(e, "timeout") THEN "throw"
  ELSE IF MessageIncludes(e, "fetch") THEN "next"
  ELSE IF MessageIncludes(e, "Rate limit") THEN "throw"
  ELSE "next"

\* tryEndpoints' catch block: "next" = the loop goes on to the next variant,
\* "throw" = the error leaves tryEndpoints.  An error matching neither test
\* falls out of the catch block, and the for loop takes the next variant.
AfterCatch(e) ==
  IF MessageIncludes(e, "timeout") \/ MessageIncludes(e, "fetch") THEN "next"
  ELSE IF MessageIncludes(e, "Rate limit") THEN "throw"
  ELSE "next"

\* getMarkets / getOrderbook / getRecentTrades catch: `Failed to fetch ...: ${message}`
WrapError(o, e) == [failedTo |-> o.type, cause |-> e]

\* ----------------------------------------------------- upstream payloads
\* What a success response's JSON body can hold, per resource.  Prices and
\* quantities are decimal strings; the model writes them as integers in units
\* of 10^-9, and the numbers the service returns in units of 10^-8.
\* Number.parseFloat of a string that is no number, or of a missing field.
NaN == -2100000000

\* ------------------------------------------------------------------ numbers
\* A JavaScript number is written as an integer in the unit its place names,
\* or as one of NaN, Infinity, -Infinity, Huge and -Huge.  Huge is a finite
\* double of the order of 1e308: the sum of two of them overflows to
\* Infinity, and a number of ordinary size added to it is absorbed.  The
\* integers of ordinary size stay below 20,000,000 in absolute value.
Infinity == 2000000000
Huge == 1000000000

Sign(x) == IF x > 0 THEN 1 ELSE IF x < 0 THEN -1 ELSE 0
Abs(x) == IF x = NaN THEN NaN ELSE IF x < 0 THEN -x ELSE x
Neg(x) == IF x = NaN THEN NaN ELSE -x
IsFinite(x) == x # NaN /\ x # Infinity /\ x # -Infinity

\* a + b
Add(a, b) ==
  IF a = NaN \/ b = NaN THEN NaN
  ELSE IF a = Infinity THEN (IF b = -Infinity THEN NaN ELSE Infinity)
  ELSE IF a = -Infinity THEN (IF b = Infinity THEN NaN ELSE -Infinity)
  ELSE IF b = Infinity \/ b = -Infinity THEN b
  ELSE IF a = Huge THEN (IF b = Huge THEN Infinity ELSE IF b = -Huge THEN 0 ELSE Huge)
  ELSE IF a = -Huge THEN (IF b = -Huge THEN -Infinity ELSE IF b = Huge THEN 0 ELSE -Huge)
  ELSE IF b = Huge \/ b = -Huge THEN b
  ELSE a + b

\* a - b
Sub(a, b) == Add(a, Neg(b))

\* a / b for a and b in one unit, in units of 1/scale, cut off towards zero;
\* a quotient below the unit is 0.  (Quotient and remainder are scaled apart
\* to keep the products small.)
Div(a, b, scale) ==
  IF a = NaN \/ b = NaN THEN NaN
  ELSE IF b = 0 THEN (IF a = 0 THEN NaN ELSE Sign(a) * Infinity)
  ELSE IF ~IsFinite(a) THEN (IF ~IsFinite(b) THEN NaN ELSE Sign(a) * Sign(b) * Infinity)
  ELSE IF ~IsFinite(b) THEN 0
  ELSE IF Abs(a) = Huge
    THEN (IF Abs(b) = Huge THEN Sign(a) * Sign(b) * scale ELSE Sign(a) * Sign(b) * Huge)
  ELSE IF Abs(b) = Huge THEN 0
  ELSE Sign(a) * Sign(b) *
         ((Abs(a) \div Abs(b)) * scale + ((Abs(a) % Abs(b)) * scale) \div Abs(b))

\* k * x for a number x of ordinary size (or NaN) and an integer weight k.
Times(k, x) == IF k = NaN \/ x = NaN THEN NaN ELSE k * x

\* a > b, a < b, a <= b, a >= b: false when either is NaN.
Gt(a, b) == a # NaN /\ b # NaN /\ a > b
Lt(a, b) == a # NaN /\ b # NaN /\ a < b
Le(a, b) == a # NaN /\ b # NaN /\ a <= b
Ge(a, b) == a # NaN /\ b # NaN /\ a >= b

\* Math.max(a, b), Math.min(a, b)
Max(a, b) == IF a = NaN \/ b = NaN THEN NaN ELSE IF a > b THEN a ELSE b
Min(a, b) == IF a = NaN \/ b = NaN THEN NaN ELSE IF a < b THEN a ELSE b

\* Math.round(x) of x given in units of 1/scale: the nearest integer, halves
\* rounded up.
Round(x, scale) ==
  IF x = NaN \/ ~IsFinite(x) \/ Abs(x) = Huge THEN x
  ELSE (2 * x + scale) \div (2 * scale)

\* !x for a number x: true of 0 and of NaN.
Falsy(x) == x = 0 \/ x = NaN

\* The third payload of each kind is one the upstream should not send: a body
\* without the `markets` list, a level whose price is no number and a level
\* without quantity, a trade whose price is no number.
UpstreamMarkets ==
  << [markets |->
        <<[marketId |-> "inj-usdt", ticker |-> "INJ/USDT",
           baseDenom |-> <<"inj">>, quoteDenom |-> <<"peggy0x", "usdt">>,
           baseMeta |-> "INJ", quoteMeta |-> ""]>>],
     [markets |->
        <<[marketId |-> "", ticker |-> "TIMEOUT/USDT",
           baseDenom |-> <<"factory", "timeout">>, quoteDenom |-> <<"usdt">>,
           baseMeta |-> "", quoteMeta |-> "USDT"],
          [marketId |-> "inj-usdt", ticker |-> "INJ/USDT",
           baseDenom |-> <<"inj">>, quoteDenom |-> <<"peggy0x", "usdt">>,
           baseMeta |-> "INJ", quoteMeta |-> "USDT"]>>],
     [market |->
        [marketId |-> "inj-usdt", ticker |-> "INJ/USDT",
         baseDenom |-> <<"inj">>, quoteDenom |-> <<"peggy0x", "usdt">>,
         baseMeta |-> "INJ", quoteMeta |-> "USDT"]] >>

UpstreamOrderbooks ==
  << [bids |-> <<[price |-> 1000, quantity |-> 50], [price |-> 1014, quantity |-> 20]>>,
      asks |-> <<[price |-> 1030, quantity |-> 10], [price |-> 1020, quantity |-> 30]>>],
     [buys |-> <<[price |-> 1005, quantity |-> 45]>>,
      sells |-> <<[price |-> 1016, quantity |-> 12], [price |-> 1016, quantity |-> 7]>>],
     [bids |-> <<[price |-> NaN, quantity |-> 50]>>,
      asks |-> <<[price |-> 1030]>>] >>

\* A timestamp and its representation: the ISO-8601 text of an instant, as
\* new Date(ms).toISOString() writes it, or the epoch-millisecond number.
IsoText(ms) == [rep |-> "iso", ms |-> ms]
EpochMs(ms) == [rep |-> "epoch", ms |-> ms]

UpstreamTrades ==
  << [trades |-> <<[price |-> 1000, quantity |-> 16, timestamp |-> IsoText(2000)],
                   [price |-> 1014, quantity |-> 4, timestamp |-> IsoText(1000)]>>],
     [trades |-> <<[price |-> 1005, quantity |-> 10, executedAt |-> 3000],
                   [price |-> 1016, quantity |-> 10, executedAt |-> 1500]>>],
     [trades |-> <<[price |-> NaN, quantity |-> 16, timestamp |-> IsoText(4000)]>>] >>

\* The upstream's data changes as time passes: the first payload of each kind
\* is what it serves at the start, the second what it serves later, the third
\* what it serves once a minute has passed.
PayloadAt(t) == IF t = 0 THEN 1 ELSE IF t < WindowMs THEN 2 ELSE 3

UpstreamPayload(type, k) ==
  IF type = "markets" THEN UpstreamMarkets[k]
  ELSE IF type = "orderbook" THEN UpstreamOrderbooks[k]
  ELSE UpstreamTrades[k]

\* ------------------------------------------------------------ normalisation
\* round(value, 8) = Math.round(value * 10^8) / 10^8, on a value given in
\* units of 10^-9: the result in units of 10^-8, halves rounded up.
\* Math.round(NaN) is NaN.
Round8(x) == IF x = NaN THEN NaN ELSE (x + 5) \div 10

\* Number.parseFloat(raw[field]): NaN for a missing field.
ParseFloat(raw, field) == IF field \in DOMAIN raw THEN raw[field] ELSE NaN

Last(s) == s[Len(s)]

\* ticker.toLowerCase().replace('/', '-')
TickerToId(ticker) ==
  IF ticker = "INJ/USDT" THEN "inj-usdt"
  ELSE IF ticker = "TIMEOUT/USDT" THEN "timeout-usdt"
  ELSE ticker

\* meta?.symbol || denom.split('/').pop() || denom
DenomSymbol(meta, denom) ==
  IF meta # "" THEN <<meta>>
  ELSE IF Last(denom) # "" THEN <<Last(denom)>>
  ELSE denom

\* getMarkets: data.markets mapped to MarketInfo {id, symbol, base, quote}.
NormalizeMarkets(data) ==
  [i \in 1..Len(IF "markets" \in DOMAIN data THEN data.markets ELSE <<>>) |->
     LET m == data.markets[i]
         base == DenomSymbol(m.baseMeta, m.baseDenom)
         quote == DenomSymbol(m.quoteMeta, m.quoteDenom)
     IN [id |-> IF m.marketId # "" THEN m.marketId ELSE TickerToId(m.ticker),
         symbol |-> <<base, quote>>, base |-> base, quote |-> quote]]

\* data.bids || data.buys || []   (and the same for asks / sells)
SideLevels(data, first, second) ==
  IF first \in DOMAIN data THEN data[first]
  ELSE IF second \in DOMAIN data THEN data[second]
  ELSE <<>>

\* [round(parseFloat(price), 8), round(parseFloat(quantity), 8)]
ToLevel(raw) == <<Round8(ParseFloat(raw, "price")), Round8(ParseFloat(raw, "quantity"))>>

\* Array.prototype.sort is stable: an element goes after its equals.
RECURSIVE InsertLevel(_, _, _)
InsertLevel(sorted, x, descending) ==
  IF sorted = <<>> THEN <<x>>
  ELSE IF (descending /\ x[1] > sorted[1][1]) \/ (~descending /\ x[1] < sorted[1][1])
    THEN <<x>> \o sorted
    ELSE <<sorted[1]>> \o InsertLevel(Tail(sorted), x, descending)

\* Levels left in the order of the response.
KeepUpstreamOrder(levels, descending) == levels

RECURSIVE SortLevels(_, _)
SortLevels(levels, descending) ==
  IF levels = <<>> THEN <<>>
  ELSE InsertLevel(SortLevels(SubSeq(levels, 1, Len(levels) - 1), descending),
                   levels[Len(levels)], descending)

\* getOrderbook: both naming conventions, bids descending, asks ascending.
NormalizeOrderbook(data) ==
  LET bids == [i \in 1..Len(SideLevels(data, "bids", "buys")) |->
                 ToLevel(SideLevels(data, "bids", "buys")[i])]
      asks == [i \in 1..Len(SideLevels(data, "asks", "sells")) |->
                 ToLevel(SideLevels(data, "asks", "sells")[i])]
  IN [bids |-> SortLevels(bids, TRUE), asks |-> SortLevels(asks, FALSE)]

\* new Date(timestamp).getTime()
GetTime(timestamp) == timestamp.ms

\* A timestamp taken from executedAt as the number it is.
TradeTimestampUnconverted(raw, t) ==
  IF "timestamp" \in DOMAIN raw THEN raw.timestamp
  ELSE IF "executedAt" \in DOMAIN raw /\ raw.executedAt # 0
    THEN EpochMs(raw.executedAt)
  ELSE IsoText(t)

\* trade.timestamp || (executedAt ? new Date(executedAt).toISOString()
\*                                : new Date().toISOString())
TradeTimestamp(raw, t) ==
  IF "timestamp" \in DOMAIN raw THEN raw.timestamp
  ELSE IF "executedAt" \in DOMAIN raw /\ raw.executedAt # 0
    THEN IsoText(raw.executedAt)
  ELSE IsoText(t)

\* <<time, trade>> pairs sort with the level sorter (ascending by time).
ToTrade(raw, t) ==
  <<GetTime(TradeTimestamp(raw, t)),
    [price |-> Round8(ParseFloat(raw, "price")),
     size |-> Round8(ParseFloat(raw, "quantity")),
     timestamp |-> TradeTimestamp(raw, t)]>>

\* getRecentTrades: data.trades mapped and sorted ascending by time.
NormalizeTrades(data, t) ==
  LET raws == IF "trades" \in DOMAIN data THEN data.trades ELSE <<>>
      keyed == SortLevels([i \in 1..Len(raws) |-> ToTrade(raws[i], t)], FALSE)
  IN [i \in 1..Len(keyed) |-> keyed[i][2]]

\* The value an operation builds from a success response's body.
Normalize(type, data, t) ==
  IF type = "markets" THEN NormalizeMarkets(data)
  ELSE IF type = "orderbook" THEN NormalizeOrderbook(data)
  ELSE NormalizeTrades(data, t)

\* ------------------------------------------------------------ tryEndpoints
NoResult == [status |-> "none", value |-> <<>>, error |-> WrapError(NoOp, NoError)]
OkResult(v) == [status |-> "ok", value |-> v, error |-> WrapError(NoOp, NoError)]
ErrResult(o, e) == [status |-> "error", value |-> <<>>, error |-> WrapError(o, e)]

Attempt(i, t, prior, outcome) ==
  [variant |-> i, at |-> t, ended |-> t, prior |-> prior, outcome |-> outcome,
   payload |-> 0]

\* Mutant of LoopFrom: a rejected check records its time like an accepted one.
RECURSIVE LoopFromRecordsRejected(_, _, _, _, _)
LoopFromRecordsRejected(c, i, err, att, ts) ==
  IF i > c.n
    THEN [next |-> "throw", error |-> IF err = NoError THEN AllFailedError ELSE err,
          variantIdx |-> i, lastError |-> err, attempts |-> att, timestamps |-> ts]
  ELSE IF RateLimitExceeded(ts, c.t, c.limit)
    THEN LET e == RateLimitError(c.label)
             att2 == Append(att, Attempt(i, c.t, c.prior, "rate_limited"))
         IN IF AfterCatch(e) = "throw"
              THEN [next |-> "throw", error |-> e, variantIdx |-> i, lastError |-> e,
                    attempts |-> att2, timestamps |-> RateLimitRecord(ts, c.t)]
              ELSE LoopFromRecordsRejected(c, i + 1, e, att2, RateLimitRecord(ts, c.t))
  ELSE [next |-> "fetch", error |-> NoError, variantIdx |-> i, lastError |-> err,
        attempts |-> Append(att, Attempt(i, c.t, c.prior, "pending")),
        timestamps |-> RateLimitRecord(ts, c.t)]

\* The for loop of tryEndpoints from variant i on, run until it awaits a
\* fetch or throws: fetchWithTimeout calls checkRateLimit synchronously, so
\* with the check failing the catch block runs in the same turn.
\*   c = [label, n (number of variants), t (Date.now()), limit, prior]
RECURSIVE LoopFrom(_, _, _, _, _)
LoopFrom(c, i, err, att, ts) ==
  IF i > c.n
    THEN [next |-> "throw", error |-> IF err = NoError THEN AllFailedError ELSE err,
          variantIdx |-> i, lastError |-> err, attempts |-> att, timestamps |-> ts]
  ELSE IF RateLimitExceeded(ts, c.t, c.limit)
    THEN LET e == RateLimitError(c.label)
             att2 == Append(att, Attempt(i, c.t, c.prior, "rate_limited"))
         IN IF AfterCatch(e) = "throw"
              THEN [next |-> "throw", error |-> e, variantIdx |-> i, lastError |-> e,
                    attempts |-> att2, timestamps |-> ts]
              ELSE LoopFrom(c, i + 1, e, att2, ts)
  ELSE [next |-> "fetch", error |-> NoError, variantIdx |-> i, lastError |-> err,
        attempts |-> Append(att, Attempt(i, c.t, c.prior, "pending")),
        timestamps |-> RateLimitRecord(ts, c.t)]

\* Mutant of Resume: after a timeout the attempt's timestamp is taken back.
ResumeReleasing(p, o, i, err, att) ==
  LET label == EndpointLabel(o)
      held == IF err = TimeoutError
                THEN SelectSeq(rateLimitTracker[label], LAMBDA x : x # startTime[p])
                ELSE rateLimitTracker[label]
      r == LoopFrom([label |-> label, n |-> NumVariants(o.type), t |-> now,
                     limit |-> rateLimitPerMinute, prior |-> Len(issued[label])],
                    i, err, att, held)
  IN /\ rateLimitTracker' = [rateLimitTracker EXCEPT ![label] = r.timestamps]
     /\ issued' = IF r.next = "fetch" THEN [issued EXCEPT ![label] = Append(@, now)]
                  ELSE issued
     /\ pc' = [pc EXCEPT ![p] = IF r.next = "fetch" THEN "fetching" ELSE "failed"]
     /\ variantIdx' = [variantIdx EXCEPT ![p] = r.variantIdx]
     /\ startTime' = [startTime EXCEPT ![p] = IF r.next = "fetch" THEN now ELSE @]
     /\ lastError' = [lastError EXCEPT ![p] = r.lastError]
     /\ attempts' = [attempts EXCEPT ![p] = r.attempts]
     /\ result' = [result EXCEPT ![p] =
                     IF r.next = "fetch" THEN NoResult ELSE ErrResult(o, r.error)]

\* Caller p's operation goes on with variant i: it ends up awaiting a fetch
\* (the network call is issued in the same turn as the rate-limit check) or
\* failed with the error tryEndpoints threw.
Resume(p, o, i, err, att) ==
  LET label == EndpointLabel(o)
      r == LoopFrom([label |-> label, n |-> NumVariants(o.type), t |-> now,
                     limit |-> rateLimitPerMinute, prior |-> Len(issued[label])],
                    i, err, att, rateLimitTracker[label])
  IN /\ rateLimitTracker' = [rateLimitTracker EXCEPT ![label] = r.timestamps]
     /\ issued' = IF r.next = "fetch" THEN [issued EXCEPT ![label] = Append(@, now)]
                  ELSE issued
     /\ pc' = [pc EXCEPT ![p] = IF r.next = "fetch" THEN "fetching" ELSE "failed"]
     /\ variantIdx' = [variantIdx EXCEPT ![p] = r.variantIdx]
     /\ startTime' = [startTime EXCEPT ![p] = IF r.next = "fetch" THEN now ELSE @]
     /\ lastError' = [lastError EXCEPT ![p] = r.lastError]
     /\ attempts' = [attempts EXCEPT ![p] = r.attempts]
     /\ result' = [result EXCEPT ![p] =
                     IF r.next = "fetch" THEN NoResult ELSE ErrResult(o, r.error)]

\* Mutant of Caught: lastError keeps the first error instead of the latest.
CaughtKeepsFirst(p, e, att) ==
  LET kept == IF lastError[p] = NoError THEN e ELSE lastError[p]
  IN IF AfterCatch(e) = "throw"
       THEN /\ pc' = [pc EXCEPT ![p] = "failed"]
            /\ lastError' = [lastError EXCEPT ![p] = kept]
            /\ attempts' = [attempts EXCEPT ![p] = att]
            /\ result' = [result EXCEPT ![p] = ErrResult(op[p], kept)]
            /\ UNCHANGED <<rateLimitTracker, issued, variantIdx, startTime>>
       ELSE Resume(p, op[p], variantIdx[p] + 1, kept, att)

\* Mutant of Caught: after an error that lets the loop go on, the same
\* variant is tried again.
CaughtRetriesVariant(p, e, att) ==
  IF AfterCatch(e) = "throw"
    THEN /\ pc' = [pc EXCEPT ![p] = "failed"]
         /\ lastError' = [lastError EXCEPT ![p] = e]
         /\ attempts' = [attempts EXCEPT ![p] = att]
         /\ result' = [result EXCEPT ![p] = ErrResult(op[p], e)]
         /\ UNCHANGED <<rateLimitTracker, issued, variantIdx, startTime>>
    ELSE Resume(p, op[p], variantIdx[p], e, att)

\* An error thrown inside tryEndpoints' try block reaches its catch block.
Caught(p, e, att) ==
  IF AfterCatch(e) = "throw"
    THEN /\ pc' = [pc EXCEPT ![p] = "failed"]
         /\ lastError' = [lastError EXCEPT ![p] = e]
         /\ attempts' = [attempts EXCEPT ![p] = att]
         /\ result' = [result EXCEPT ![p] = ErrResult(op[p], e)]
         /\ UNCHANGED <<rateLimitTracker, issued, variantIdx, startTime>>
    ELSE Resume(p, op[p], variantIdx[p] + 1, e, att)

\* The attempts of p with the pending one closed.
Closed(p, outcome, k) ==
  [attempts[p] EXCEPT ![Len(attempts[p])].outcome = outcome,
                      ![Len(attempts[p])].ended = now,
                      ![Len(attempts[p])].payload = k]

\* Mutant of CallMetrics: the latency is not measured.
CallMetricsNoLatency(p, success, status, error) ==
  [endpoint |-> EndpointLabel(op[p]), method |-> "GET", success |-> success,
   statusCode |-> status, responseTimeMs |-> 0, timestamp |-> now,
   error |-> error, op |-> p]

\* The ApiCallMetrics object fetchWithTimeout records (op: the caller whose
\* operation made the call, a history field).
CallMetrics(p, success, status, error) ==
  [endpoint |-> EndpointLabel(op[p]), method |-> "GET", success |-> success,
   statusCode |-> status, responseTimeMs |-> now - startTime[p], timestamp |-> now,
   error |-> error, op |-> p]

\* Mutant of Recorded: only successful calls enter the history.
RecordedSuccessesOnly(p, success, status, error) ==
  IF enableMetrics /\ success
    THEN recordCall(metrics, CallMetrics(p, success, status, error))
    ELSE metrics

\* if (this.enableMetrics) this.metrics.recordCall(...)
Recorded(p, success, status, error) ==
  IF enableMetrics THEN recordCall(metrics, CallMetrics(p, success, status, error))
  ELSE metrics

\* ----------------------------------------------------------------- actions
NoSet == [value |-> "", at |-> 0, ttlMs |-> 0]
NoGet == [key |-> "", at |-> 0, hit |-> FALSE, value |-> "", kept |-> FALSE,
          since |-> NoSet]

NoRequest == [handler |-> "none", id |-> "", key |-> "", limit |-> 0,
              stage |-> "none", found |-> <<>>, code |-> 0, body |-> <<>>]

\* One caller alone is followed through more failures and more time than two.
NoCalc == [fn |-> "none", args |-> <<>>, result |-> <<>>]
FaultBudget ==
  IF concurrency = 0 THEN (IF enableMetrics THEN MaxApiFaults ELSE MaxStaleFaults)
  ELSE IF concurrency = 1 THEN MaxSoloFaults ELSE MaxFaults
TickBudget ==
  IF concurrency = 0 THEN (IF enableMetrics THEN MaxApiTicks ELSE MaxStaleTicks)
  ELSE IF concurrency = 1 THEN MaxSoloTicks ELSE MaxTicks

\* The state after construction, the configuration set aside.
Constructed ==
  /\ now = 0
  /\ lastSet = [k \in CacheKeys |-> NoSet]
  /\ lastGet = NoGet
  /\ store = [k \in {} |-> 0]
  /\ rateLimitTracker = [l \in Labels |-> <<>>]
  /\ metrics = <<>>
  /\ pc = [p \in Callers |-> "idle"]
  /\ op = [p \in Callers |-> NoOp]
  /\ variantIdx = [p \in Callers |-> 0]
  /\ startTime = [p \in Callers |-> 0]
  /\ lastError = [p \in Callers |-> NoError]
  /\ result = [p \in Callers |-> NoResult]
  /\ ticks = 0
  /\ faults = 0
  /\ attempts = [p \in Callers |-> <<>>]
  /\ issued = [l \in Labels |-> <<>>]
  /\ request = NoRequest
  /\ requests = 0
  /\ summaryCache = [k \in {} |-> 0]
  /\ summarySources = [k \in {} |-> 0]
  /\ routeMetrics = <<>>
  /\ served = {}
  /\ calc = NoCalc

Init ==
  /\ concurrency \in Callers
  /\ rateLimitPerMinute \in {1, MaxRateLimit}
  /\ enableMetrics \in BOOLEAN
  /\ Constructed

\* Mutant of StartOp: the cache is not consulted before tryEndpoints runs.
StartOpNoCache(p, o) ==
  /\ pc[p] = "idle"
  /\ p <= concurrency
  /\ \A q \in Callers : q < p => pc[q] # "idle"
  /\ op' = [op EXCEPT ![p] = o]
  /\ UNCHANGED <<now, fixed, metrics, ticks, faults>>
  /\ store' = CacheAfterGet(store, CacheKey(o), now)
  /\ Resume(p, o, 1, NoError, <<>>)

\* Mutant of StartOp: on a miss a placeholder entry is written before
\* tryEndpoints runs.
StartOpWritesPlaceholder(p, o) ==
  /\ pc[p] = "idle"
  /\ p <= concurrency
  /\ \A q \in Callers : q < p => pc[q] # "idle"
  /\ op' = [op EXCEPT ![p] = o]
  /\ UNCHANGED <<now, fixed, metrics, ticks, faults>>
  /\ IF CacheHit(store, CacheKey(o), now)
       THEN /\ pc' = [pc EXCEPT ![p] = "done"]
            /\ result' = [result EXCEPT ![p] = OkResult(store[CacheKey(o)].value)]
            /\ UNCHANGED <<store, rateLimitTracker, issued, variantIdx, startTime,
                           lastError, attempts>>
       ELSE /\ store' = CacheSetDefault(store, CacheKey(o), <<>>, now)
            /\ Resume(p, o, 1, NoError, <<>>)

\* getMarkets / getOrderbook / getRecentTrades up to the first await: the cache
\* lookup, and on a miss tryEndpoints up to the first fetch.  Callers are
\* interchangeable, so they start in the order of their numbers.
StartOp(p, o) ==
  /\ pc[p] = "idle"
  /\ p <= concurrency
  /\ \A q \in Callers : q < p => pc[q] # "idle"
  /\ op' = [op EXCEPT ![p] = o]
  /\ UNCHANGED <<now, fixed, metrics, ticks, faults>>
  /\ IF CacheHit(store, CacheKey(o), now)
       THEN /\ pc' = [pc EXCEPT ![p] = "done"]
            /\ result' = [result EXCEPT ![p] = OkResult(store[CacheKey(o)].value)]
            /\ UNCHANGED <<store, rateLimitTracker, issued, variantIdx, startTime,
                           lastError, attempts>>
       ELSE /\ store' = CacheAfterGet(store, CacheKey(o), now)
            /\ Resume(p, o, 1, NoError, <<>>)

\* The fetch resolves with a success response: metrics, then the body is
\* parsed, normalised, cached and returned.
FetchOk(p) ==
  /\ pc[p] = "fetching"
  /\ metrics' = Recorded(p, TRUE, 200, "")
  /\ LET v == Normalize(op[p].type, UpstreamPayload(op[p].type, PayloadAt(now)), now)
     IN /\ store' = CacheSetDefault(store, CacheKey(op[p]), v, now)
        /\ result' = [result EXCEPT ![p] = OkResult(v)]
  /\ pc' = [pc EXCEPT ![p] = "done"]
  /\ attempts' = [attempts EXCEPT ![p] = Closed(p, "ok", PayloadAt(now))]
  /\ UNCHANGED <<now, fixed, op, ticks, faults,
                 rateLimitTracker, issued, variantIdx, startTime, lastError>>

\* The fetch resolves with a non-success response: metrics, then tryEndpoints
\* skips a 404 (`continue`) and throws on any other status, inside its own try.
FetchNotOk(p, status) ==
  /\ pc[p] = "fetching"
  /\ faults < FaultBudget
  /\ faults' = faults + 1
  /\ metrics' = Recorded(p, FALSE, status, "status")
  /\ IF status = 404
       THEN Resume(p, op[p], variantIdx[p] + 1, lastError[p], Closed(p, "http404", 0))
       ELSE Caught(p, ApiError(status), Closed(p, "http500", 0))
  /\ UNCHANGED <<now, fixed, store, op, ticks>>

\* The fetch rejects with a network error.
FetchReject(p) ==
  /\ pc[p] = "fetching"
  /\ faults < FaultBudget
  /\ faults' = faults + 1
  /\ metrics' = Recorded(p, FALSE, 0, "fetch failed")
  /\ Caught(p, NetworkError, Closed(p, "network", 0))
  /\ UNCHANGED <<now, fixed, store, op, ticks>>

\* The abort timer armed by fetchWithTimeout fires: the fetch rejects with an
\* AbortError, rethrown as the timeout error.
FetchAbort(p) ==
  /\ pc[p] = "fetching"
  /\ now >= startTime[p] + INJECTIVE_API_TIMEOUT_MS
  /\ faults < FaultBudget
  /\ faults' = faults + 1
  /\ metrics' = Recorded(p, FALSE, 0, "This operation was aborted")
  /\ Caught(p, TimeoutError, Closed(p, "timeout", 0))
  /\ UNCHANGED <<now, fixed, store, op, ticks>>

\* Time passes.
Tick(d) ==
  /\ ticks < TickBudget
  /\ ticks' = ticks + 1
  /\ now' = now + d
  /\ UNCHANGED <<fixed, store, rateLimitTracker, metrics,
                 pc, op, variantIdx, startTime, lastError, result, faults,
                 attempts, issued>>

\* Non-success statuses the upstream answers with: not found, and another one.
FailureStatuses == {404, 500}

Next ==
  \/ \E p \in Callers, o \in Ops : StartOp(p, o)
  \/ \E p \in Callers : FetchOk(p)
  \/ \E p \in Callers, s \in FailureStatuses : FetchNotOk(p, s)
  \/ \E p \in Callers : FetchReject(p)
  \/ \E p \in Callers : FetchAbort(p)
  \/ \E d \in ClockSteps : Tick(d)

Spec == Init /\ [][Next]_vars

\* The fetch caller p awaits settles: it resolves, rejects, or is aborted by
\* the timer fetchWithTimeout armed.
Settles(p) ==
  \/ FetchOk(p)
  \/ \E s \in FailureStatuses : FetchNotOk(p, s)
  \/ FetchReject(p)
  \/ FetchAbort(p)

\* One caller followed to the end of its operation; every awaited fetch
\* settles in the end.
InitLive ==
  /\ concurrency = 1
  /\ rateLimitPerMinute \in {1, MaxRateLimit}
  /\ enableMetrics \in BOOLEAN
  /\ Constructed

SpecLive ==
  InitLive /\ [][Next]_vars /\ \A p \in Callers : WF_vars(Settles(p))

\* ---------------------------------------------- the cache exercised alone
\* CacheService called directly: set with an explicit TTL, set with the
\* instance default, get, and the passage of time.  lastGet describes the get()
\* that has just run; any other call clears it.
CacheValues == {"v1", "v2"}
ProbeKeys == {"injective:markets", "injective:orderbook:inj-usdt"}
CacheTtls == {2 * INJECTIVE_API_CACHE_TTL_MS}
CacheClockStep == INJECTIVE_API_CACHE_TTL_MS

clientVars == <<rateLimitPerMinute, enableMetrics, rateLimitTracker, metrics, pc, op,
                variantIdx, startTime, lastError, result, faults, concurrency,
                attempts, issued, http, calc>>

InitCache ==
  /\ Init
  /\ rateLimitPerMinute = 1
  /\ enableMetrics = TRUE
  /\ concurrency = 1

\* cache.set(key, value, ttlMs)
CacheSetCall(k, v, ttlMs) ==
  /\ store' = CacheSet(store, k, v, ttlMs, now)
  /\ lastSet' = [lastSet EXCEPT ![k] =
                   [value |-> v, at |-> now, ttlMs |-> ttlMs]]
  /\ lastGet' = NoGet
  /\ UNCHANGED <<now, ticks, clientVars>>

\* cache.set(key, value): no TTL passed.
CacheSetDefaultCall(k, v) ==
  /\ store' = CacheSetDefault(store, k, v, now)
  /\ lastSet' = [lastSet EXCEPT ![k] =
                   [value |-> v, at |-> now, ttlMs |-> 0]]
  /\ lastGet' = NoGet
  /\ UNCHANGED <<now, ticks, clientVars>>

\* cache.get(key): what it returned, and whether the entry is still stored.
CacheGetCall(k) ==
  /\ store' = CacheAfterGet(store, k, now)
  /\ lastGet' = [key |-> k, at |-> now, hit |-> CacheHit(store, k, now),
                 value |-> IF CacheHit(store, k, now) THEN store[k].value ELSE "",
                 kept |-> k \in DOMAIN store', since |-> lastSet[k]]
  /\ UNCHANGED <<now, ticks, lastSet, clientVars>>

CacheTick ==
  /\ ticks < MaxCacheTicks
  /\ ticks' = ticks + 1
  /\ now' = now + CacheClockStep
  /\ lastGet' = NoGet
  /\ UNCHANGED <<store, lastSet, clientVars>>

NextCache ==
  \/ \E k \in ProbeKeys, v \in CacheValues, ttlMs \in CacheTtls : CacheSetCall(k, v, ttlMs)
  \/ \E k \in ProbeKeys, v \in CacheValues : CacheSetDefaultCall(k, v)
  \/ \E k \in ProbeKeys : CacheGetCall(k)
  \/ CacheTick

SpecCache == InitCache /\ [][NextCache]_vars

\* ------------------------------------------------------- the HTTP boundary
\* The markets controller (one InjectiveService, one summary cache) and the
\* metrics controller (an InjectiveService of its own), serving one request
\* after another.  A handler runs up to its next await in one action; the
\* operations it awaits are carried by the callers: caller 1 alone for
\* getMarkets, callers 1 and 2 for the calls made under Promise.all.
MaxRequests == 2              \* HTTP requests received in one behaviour

CACHE_TTL_MS == 10000         \* env default: TTL of the controller's summary cache
SummaryWindowMs == 300000     \* getSummary(windowMs = 5 * 60 * 1000)
RecentFailuresShown == 10     \* getApiMetrics: getRecentFailures(10)

PerMarketHandlers == {"summary", "liquidity", "volatility", "health", "insights"}
RequestIds == MarketIds \cup {"atom-usdt"}
Windows == {"1h"}
Lookbacks == {2}

\* The error text a handler's catch block sends with status 500.
ErrorBody(handler) ==
  CASE handler = "summary" -> "Failed to fetch market summary."
    [] handler = "liquidity" -> "Failed to fetch liquidity metrics."
    [] handler = "volatility" -> "Failed to fetch volatility metrics."
    [] handler = "health" -> "Failed to fetch health metrics."
    [] handler = "insights" -> "Failed to fetch market insights."
    [] handler = "active" -> "Failed to fetch active markets."
    [] OTHER -> "Failed to fetch API metrics."

NotFoundBody == "Market not found."

\* cacheKey = `summary:${marketId}:${window}:${lookback}`
SummaryKey(id, window, lookback) ==
  "summary:" \o id \o ":" \o window \o ":" \o ToString(lookback)

\* tradeLimit = Math.min(2000, Math.max(60, lookback * 60))
TradeLimit(lookback) ==
  LET wanted == IF lookback * 60 > 60 THEN lookback * 60 ELSE 60
  IN IF wanted < 2000 THEN wanted ELSE 2000

MarketsOp == [type |-> "markets", marketId |-> "", limit |-> 0]
OrderbookOp(id) == [type |-> "orderbook", marketId |-> id, limit |-> 0]
TradesOp(id, limit) == [type |-> "trades", marketId |-> id, limit |-> limit]

\* getMarketById's null.
NoMarket == [id |-> "", symbol |-> <<>>, base |-> <<>>, quote |-> <<>>]

\* Mutant of FindMarket: the first market of the list, whatever its id.
FindMarketFirst(list, id) ==
  IF list = <<>> THEN NoMarket ELSE list[1]

\* markets.find((market) => market.id === id || market.id === parseMarketId(id))
\* ?? null, parseMarketId returning its argument.
FindMarket(list, id) ==
  IF \E i \in 1..Len(list) : list[i].id = id
    THEN list[CHOOSE i \in 1..Len(list) :
                /\ list[i].id = id
                /\ \A j \in 1..Len(list) : list[j].id = id => i <= j]
    ELSE NoMarket

\* What the failure of an acquisition operation tells its consumer.
Category(e) ==
  IF e.kind = "rate_limit" THEN "back_off" ELSE "unavailable"

\* An operation run up to its first await on a caller slot, given the cache,
\* the rate limiter and the call history as the previous slot left them.
BeginOp(o, st, trk, iss) ==
  IF o = NoOp
    THEN [pc |-> "idle", variantIdx |-> 0, lastError |-> NoError, attempts |-> <<>>,
          result |-> NoResult, store |-> st, tracker |-> trk, issued |-> iss]
  ELSE IF CacheHit(st, CacheKey(o), now)
    THEN [pc |-> "done", variantIdx |-> 0, lastError |-> NoError, attempts |-> <<>>,
          result |-> OkResult(st[CacheKey(o)].value),
          store |-> st, tracker |-> trk, issued |-> iss]
  ELSE LET label == EndpointLabel(o)
           r == LoopFrom([label |-> label, n |-> NumVariants(o.type), t |-> now,
                          limit |-> rateLimitPerMinute, prior |-> Len(iss[label])],
                         1, NoError, <<>>, trk[label])
       IN [pc |-> IF r.next = "fetch" THEN "fetching" ELSE "failed",
           variantIdx |-> r.variantIdx, lastError |-> r.lastError,
           attempts |-> r.attempts,
           result |-> IF r.next = "fetch" THEN NoResult ELSE ErrResult(o, r.error),
           store |-> CacheAfterGet(st, CacheKey(o), now),
           tracker |-> [trk EXCEPT ![label] = r.timestamps],
           issued |-> IF r.next = "fetch" THEN [iss EXCEPT ![label] = Append(@, now)]
                      ELSE iss]

\* The handler calls o1 and then o2 (NoOp: nothing) without awaiting between.
Launch(o1, o2) ==
  LET b1 == BeginOp(o1, store, rateLimitTracker, issued)
      b2 == BeginOp(o2, b1.store, b1.tracker, b1.issued)
      b == <<b1, b2>>
      o == <<o1, o2>>
  IN /\ op' = [p \in Callers |-> o[p]]
     /\ pc' = [p \in Callers |-> b[p].pc]
     /\ variantIdx' = [p \in Callers |-> b[p].variantIdx]
     /\ startTime' = [p \in Callers |-> now]
     /\ lastError' = [p \in Callers |-> b[p].lastError]
     /\ attempts' = [p \in Callers |-> b[p].attempts]
     /\ result' = [p \in Callers |-> b[p].result]
     /\ store' = b2.store
     /\ rateLimitTracker' = b2.tracker
     /\ issued' = b2.issued

callerVars == <<pc, op, variantIdx, startTime, lastError, attempts, result, store,
                rateLimitTracker, issued>>

\* ------------------------------------------------------- the metrics engine
\* Units: prices, sizes, depths and volumes in whole units; spreads in 0.01
\* bps; turnover, imbalance and the values of normalize and clamp in 1/100;
\* scores in whole points.
\* clamp(value, min, max) = Math.min(max, Math.max(min, value))
Clamp(x, lo, hi) == Min(hi, Max(lo, x))

\* normalize(value, min, max), in 1/100.
normalize(v, lo, hi) ==
  IF Le(hi, lo) THEN 0
  ELSE Clamp(Div(Sub(v, lo), Sub(hi, lo), 100), 0, 100)

\* values.reduce((sum, x) => sum + x, 0)
RECURSIVE Sum(_)
Sum(values) ==
  IF values = <<>> THEN 0
  ELSE Add(Sum(SubSeq(values, 1, Len(values) - 1)), values[Len(values)])

\* orderbook.bids[0]?.[0] and orderbook.asks[0]?.[0] are both truthy: an
\* empty side gives undefined, and 0 and NaN are falsy as well.
HasTop(orderbook) ==
  /\ orderbook.bids # <<>>
  /\ orderbook.asks # <<>>
  /\ ~Falsy(orderbook.bids[1][1])
  /\ ~Falsy(orderbook.asks[1][1])

\* computeSpreadBps, in 0.01 bps:
\*   ((bestAsk - bestBid) / ((bestBid + bestAsk) / 2)) * 10_000
ComputeSpreadBps(orderbook) ==
  IF ~HasTop(orderbook) THEN 0
  ELSE LET bestBid == orderbook.bids[1][1]
           bestAsk == orderbook.asks[1][1]
       IN Div(Times(20000, Sub(bestAsk, bestBid)), Add(bestBid, bestAsk), 100)

\* price >= mid * (1 - bps / 10_000), with mid = (bestBid + bestAsk) / 2
AboveBidFloor(price, orderbook, bps) ==
  Ge(Times(20000, price),
     Times(10000 - bps, Add(orderbook.bids[1][1], orderbook.asks[1][1])))

\* price <= mid * (1 + bps / 10_000)
BelowAskCeil(price, orderbook, bps) ==
  Le(Times(20000, price),
     Times(10000 + bps, Add(orderbook.bids[1][1], orderbook.asks[1][1])))

\* The sizes of the levels a side has within bps of the mid price, summed.
BidDepth(orderbook, bps) ==
  Sum([i \in 1..Len(SelectSeq(orderbook.bids,
                              LAMBDA l : AboveBidFloor(l[1], orderbook, bps))) |->
         SelectSeq(orderbook.bids, LAMBDA l : AboveBidFloor(l[1], orderbook, bps))[i][2]])

AskDepth(orderbook, bps) ==
  Sum([i \in 1..Len(SelectSeq(orderbook.asks,
                              LAMBDA l : BelowAskCeil(l[1], orderbook, bps))) |->
         SelectSeq(orderbook.asks, LAMBDA l : BelowAskCeil(l[1], orderbook, bps))[i][2]])

\* A depth that counts every level of a book without a top.
ComputeDepthOfAnyBook(orderbook, bps) ==
  IF ~HasTop(orderbook)
    THEN Add(Sum([i \in 1..Len(orderbook.bids) |-> orderbook.bids[i][2]]),
             Sum([i \in 1..Len(orderbook.asks) |-> orderbook.asks[i][2]]))
  ELSE Add(BidDepth(orderbook, bps), AskDepth(orderbook, bps))

\* computeDepthAtBps
ComputeDepthAtBps(orderbook, bps) ==
  IF ~HasTop(orderbook) THEN 0
  ELSE Add(BidDepth(orderbook, bps), AskDepth(orderbook, bps))

\* computeOrderbookImbalance, in 1/100.
ComputeOrderbookImbalance(orderbook, bps) ==
  IF ~HasTop(orderbook) THEN 0
  ELSE IF Add(BidDepth(orderbook, bps), AskDepth(orderbook, bps)) = 0 THEN 0
  ELSE Div(Sub(BidDepth(orderbook, bps), AskDepth(orderbook, bps)),
           Add(BidDepth(orderbook, bps), AskDepth(orderbook, bps)), 100)

\* computeLiquidityMetrics
ComputeLiquidityMetrics(orderbook, trades) ==
  LET spreadBps == ComputeSpreadBps(orderbook)
      depth25 == ComputeDepthAtBps(orderbook, 25)
      imbalance == ComputeOrderbookImbalance(orderbook, 25)
      volume == Sum([i \in 1..Len(trades) |-> trades[i].size])
      turnover == IF Gt(depth25, 0) THEN Div(volume, depth25, 100) ELSE 0
      spreadScore == Sub(100, normalize(spreadBps, 500, 5000))
      depthScore == normalize(depth25, 5000, 200000)
      turnoverScore == normalize(turnover, 5, 120)
      imbalanceScore == Sub(100, Abs(imbalance))
      weighted == Add(Add(Times(35, spreadScore), Times(35, depthScore)),
                      Add(Times(20, turnoverScore), Times(10, imbalanceScore)))
  IN [spread_bps |-> spreadBps, depth_25bps |-> depth25, turnover |-> turnover,
      imbalance |-> imbalance, score |-> Round(Clamp(weighted, 0, 10000), 100)]

\* trades.reduce((sum, trade) => sum + trade.price * trade.size, 0), in units
\* of 10^-16.
RECURSIVE VolumeQuote(_)
VolumeQuote(trades) ==
  IF trades = <<>> THEN 0
  ELSE trades[1].price * trades[1].size + VolumeQuote(Tail(trades))

\* The score computeActivityMetrics derives from the quote volume (in whole
\* units) and the number of trades:
\*   Math.round(100 * clamp(0.6 * normalize(volumeQuote, 10_000, 5_000_000)
\*                          + 0.4 * normalize(tradesCount, 10, 2_000), 0, 1))
ActivityScoreOf(volumeQuote, tradesCount) ==
  Round(Clamp(Add(Times(60, normalize(volumeQuote, 10000, 5000000)),
                  Times(40, normalize(tradesCount, 10, 2000))), 0, 10000), 100)

\* computeActivityMetrics(trades).score for trades as the service returns
\* them (units of 10^-8); a not-a-number price or size makes the volume, and
\* with it the score, not-a-number.
ActivityScore(trades) ==
  IF \E i \in 1..Len(trades) : trades[i].price = NaN \/ trades[i].size = NaN
    THEN NaN
    ELSE ActivityScoreOf((VolumeQuote(trades) \div 100000000) \div 100000000,
                         Len(trades))

\* computeActivityMetrics for trades in whole units.
ComputeActivityMetrics(trades) ==
  LET volumeQuote == Sum([i \in 1..Len(trades) |->
                            Times(trades[i].price, trades[i].size)])
  IN [volume_quote |-> volumeQuote, trades |-> Len(trades),
      score |-> ActivityScoreOf(volumeQuote, Len(trades))]

\* The logarithm to base 2 of a power of two.
RECURSIVE Log2(_)
Log2(x) == IF x <= 1 THEN 0 ELSE 1 + Log2(x \div 2)

\* Math.log(current / prev), in units of ln(2) / 1000.  The prices of the
\* model are powers of two, which makes the logarithm of every ratio a whole
\* multiple of ln(2).
LogReturn(current, prev) ==
  IF current = NaN \/ prev = NaN THEN NaN
  ELSE 1000 * (Log2(current) - Log2(prev))

\* The loop of logReturns started at index `from` (the code starts it at the
\* second price): a pair with a price <= 0 is skipped, every other pair
\* pushes its log return.
RECURSIVE ReturnsFrom(_, _)
ReturnsFrom(prices, i) ==
  IF i > Len(prices) THEN <<>>
  ELSE (IF Le(prices[i - 1], 0) \/ Le(prices[i], 0) THEN <<>>
        ELSE <<LogReturn(prices[i], prices[i - 1])>>)
       \o ReturnsFrom(prices, i + 1)

\* logReturns
LogReturns(prices) ==
  IF Len(prices) < 2 THEN <<>>
  ELSE ReturnsFrom(prices, 2)

\* A mean over one value fewer than there are.
MeanSample(values) ==
  IF Len(values) = 0 THEN 0
  ELSE Div(Sum(values), Len(values) - 1, 1)

\* mean
Mean(values) ==
  IF Len(values) = 0 THEN 0
  ELSE Div(Sum(values), Len(values), 1)

\* value ** 2
Sq(x) == IF x = NaN THEN NaN ELSE x * x

\* Math.sqrt, cut off to a whole number of units.
Sqrt(x) ==
  IF x = NaN \/ x < 0 THEN NaN
  ELSE IF x >= Huge THEN x
  ELSE CHOOSE r \in 0..5000 : r * r <= x /\ (r + 1) * (r + 1) > x

\* stdDev
StdDev(values) ==
  IF Len(values) = 0 THEN 0
  ELSE LET avg == Mean(values)
           variance == Mean([i \in 1..Len(values) |-> Sq(Sub(values[i], avg))])
       IN Sqrt(variance)

\* ewma with lambda = 0.94, folded from the first value on.
RECURSIVE ewma(_)
ewma(values) ==
  IF Len(values) = 0 THEN 0
  ELSE IF Len(values) = 1 THEN values[1]
  ELSE Div(Add(Times(94, ewma(SubSeq(values, 1, Len(values) - 1))),
               Times(6, values[Len(values)])), 100, 1)

\* computeRealizedVol, in units of ln(2) / 1000.
ComputeRealizedVol(prices) == StdDev(LogReturns(prices))

\* computeEwmaVol
ComputeEwmaVol(prices) ==
  Sqrt(ewma([i \in 1..Len(LogReturns(prices)) |-> Sq(LogReturns(prices)[i])]))

\* A default baseline of half the realized volatility.
BaselineHalfRealized(realized, baselineVol) ==
  IF baselineVol # <<>> THEN Times(10, baselineVol[1])
  ELSE IF Gt(realized, 0) THEN Times(5, realized) ELSE 0

\* baselineVol ?? (realized > 0 ? realized * 0.8 : 0), in tenths of the unit
\* of realized; baselineVol is <<>> when the argument is left out.
Baseline(realized, baselineVol) ==
  IF baselineVol # <<>> THEN Times(10, baselineVol[1])
  ELSE IF Gt(realized, 0) THEN Times(8, realized) ELSE 0

\* A trend that divides by every baseline that is not negative.
TrendDividesByZero(realized, baseline) ==
  IF Ge(baseline, 0) THEN Div(Times(10, realized), baseline, 10000) ELSE 10000

\* baseline > 0 ? realized / baseline : 1, in 1/10000.
Trend(realized, baseline) ==
  IF Gt(baseline, 0) THEN Div(Times(10, realized), baseline, 10000) ELSE 10000

\* computeVolatilityMetrics
ComputeVolatilityMetrics(trades, baselineVol) ==
  LET prices == [i \in 1..Len(trades) |-> trades[i].price]
      realized == ComputeRealizedVol(prices)
      trend == Trend(realized, Baseline(realized, baselineVol))
  IN [realized |-> realized, ewma |-> ComputeEwmaVol(prices), trend |-> trend,
      score |-> Round(Times(100, Clamp(Sub(100, normalize(trend, 10000, 30000)),
                                       0, 100)), 100)]

\* computeHealthMetrics
ComputeHealthMetrics(liquidity, volatility, activity) ==
  [score |-> Round(Add(Add(Times(45, liquidity.score), Times(35, volatility.score)),
                       Times(20, activity.score)), 100)]

\* signals.push({ code, level, message }) when the rule's comparison holds.
When(cond, code, level, message) ==
  IF cond THEN <<[code |-> code, level |-> level, message |-> message]>>
  ELSE <<>>

\* Rules whose comparisons admit the threshold itself.
ThresholdSignalsInclusive(m) ==
  When(Ge(m.liquidity.spread_bps, 2500),
       "LIQ_SPREAD_WIDE", "warn", "Spread above 25 bps.")
  \o When(Le(m.liquidity.depth_25bps, 20000),
          "LIQ_DEPTH_THIN", "warn", "Depth inside 25 bps is thin.")
  \o When(Ge(m.volatility.trend, 18000),
          "VOL_TREND_UP", "warn", "Volatility trending up vs baseline.")
  \o When(Le(m.activity.score, 30),
          "ACTIVITY_LOW", "warn", "Activity score below 30.")
  \o When(Le(m.health.score, 40),
          "HEALTH_DETERIORATING", "critical", "Market health score below 40.")

\* The five threshold rules of buildSignals, in the order of the code.
ThresholdSignals(m) ==
  When(Gt(m.liquidity.spread_bps, 2500),
       "LIQ_SPREAD_WIDE", "warn", "Spread above 25 bps.")
  \o When(Lt(m.liquidity.depth_25bps, 20000),
          "LIQ_DEPTH_THIN", "warn", "Depth inside 25 bps is thin.")
  \o When(Gt(m.volatility.trend, 18000),
          "VOL_TREND_UP", "warn", "Volatility trending up vs baseline.")
  \o When(Lt(m.activity.score, 30),
          "ACTIVITY_LOW", "warn", "Activity score below 30.")
  \o When(Lt(m.health.score, 40),
          "HEALTH_DETERIORATING", "critical", "Market health score below 40.")

\* buildSignals without the closing rule.
BuildSignalsNoFallback(m) == ThresholdSignals(m)

\* buildSignals
BuildSignals(m) ==
  IF Len(ThresholdSignals(m)) = 0
    THEN When(TRUE, "HEALTH_OK", "info", "No material degradation detected.")
    ELSE ThresholdSignals(m)

\* One entry of the ranking: <<activity_score, item>>.
RankOf(market, trades) ==
  <<ActivityScore(trades),
    [market_id |-> market.id, symbol |-> market.symbol,
     activity_score |-> ActivityScore(trades)]>>

\* ranked.sort((a, b) => b.activity_score - a.activity_score): a comparison
\* with a not-a-number score yields NaN, which sort takes for "equal".
RECURSIVE InsertRank(_, _)
InsertRank(sorted, x) ==
  IF sorted = <<>> THEN <<x>>
  ELSE IF x[1] # NaN /\ sorted[1][1] # NaN /\ x[1] > sorted[1][1]
    THEN <<x>> \o sorted
    ELSE <<sorted[1]>> \o InsertRank(Tail(sorted), x)

RECURSIVE SortRanks(_)
SortRanks(ranks) ==
  IF ranks = <<>> THEN <<>>
  ELSE InsertRank(SortRanks(SubSeq(ranks, 1, Len(ranks) - 1)), ranks[Len(ranks)])

\* The body listActiveMarkets sends: items: ranked.slice(0, limit), count.
RankingBody(ranks, limit) ==
  LET sorted == SortRanks(ranks)
      shown == IF Len(sorted) < limit THEN Len(sorted) ELSE limit
  IN [items |-> [i \in 1..shown |-> sorted[i][2]], count |-> Len(sorted)]

\* The envelope buildSummary builds and caches.  Its metrics and signals are
\* functions of the order book and the trades, which the model keeps in
\* their place.
SummaryOf(market, orderbook, trades) ==
  [market_id |-> market.id, symbol |-> market.symbol,
   orderbook |-> orderbook, trades |-> trades]

\* What a per-market handler sends of the envelope: all of it, or the
\* envelope with its metrics narrowed to the handler's part.
ViewOf(handler, summary) == [view |-> handler, summary |-> summary]

\* The entries of one `${method} ${endpoint}` key.
OfKey(entries, key) ==
  SelectSeq(entries, LAMBDA m : <<m.method, m.endpoint>> = key)

\* recent.reduce((sum, m) => sum + m.responseTimeMs, 0)
RECURSIVE TotalResponseTime(_)
TotalResponseTime(entries) ==
  IF entries = <<>> THEN 0
  ELSE entries[1].responseTimeMs + TotalResponseTime(Tail(entries))

\* The counts and rates getSummary derives from the entries it looks at;
\* successRate in 1/10000, average response times in 1/100 ms.
SummaryOfEntries(recent) ==
  LET successCount == Len(SelectSeq(recent, LAMBDA m : m.success))
      keys == {<<recent[i].method, recent[i].endpoint>> : i \in 1..Len(recent)}
  IN [totalCalls |-> Len(recent),
      successCount |-> successCount,
      failureCount |-> Len(recent) - successCount,
      successRate |-> IF Len(recent) > 0 THEN Div(successCount, Len(recent), 10000)
                                         ELSE 0,
      averageResponseTimeMs |->
        IF Len(recent) > 0 THEN Div(TotalResponseTime(recent), Len(recent), 100)
                           ELSE 0,
      endpointStats |->
        [k \in keys |->
           [calls |-> Len(OfKey(recent, k)),
            successes |-> Len(SelectSeq(OfKey(recent, k), LAMBDA m : m.success)),
            failures |-> Len(SelectSeq(OfKey(recent, k), LAMBDA m : ~m.success)),
            avgResponseTime |->
              Div(TotalResponseTime(OfKey(recent, k)), Len(OfKey(recent, k)), 100)]]]

\* A summary over the whole retained history, whatever the window.
GetSummaryWholeHistory(hist, t, windowMs) == SummaryOfEntries(hist)

\* ApiMetricsService.getSummary(windowMs): the entries with
\* timestamp >= Date.now() - windowMs, summarized.
GetSummaryOver(hist, t, windowMs) ==
  SummaryOfEntries(SelectSeq(hist, LAMBDA m : m.timestamp >= t - windowMs))

\* ApiMetricsService.getSummary(): the default window of five minutes.
GetSummary(hist, t) == GetSummaryOver(hist, t, SummaryWindowMs)

\* Array.prototype.slice(start): the index (from 1) of the first element
\* kept; a negative start counts from the end, and -0 is 0.
SliceFrom(len, start) ==
  IF start < 0 THEN (IF len + start > 0 THEN len + start ELSE 0) + 1
  ELSE (IF start < len THEN start ELSE len) + 1

\* ApiMetricsService.getRecentFailures(limit): filter, slice(-limit), reverse.
GetRecentFailures(hist, limit) ==
  LET failures == SelectSeq(hist, LAMBDA m : ~m.success)
      first == SliceFrom(Len(failures), -limit)
      kept == SubSeq(failures, first, Len(failures))
  IN [i \in 1..Len(kept) |-> kept[Len(kept) + 1 - i]]

\* reply.code(code).send(body)
Replied(code, body) ==
  [request EXCEPT !.stage = "replied", !.code = code, !.body = body]

Limits == {1}

\* A failure reply as the history keeps it.
Failure(category, code, body) == [category |-> category, code |-> code, body |-> body]

\* A request is received when the one before it has been answered and no
\* operation it started is still awaiting its fetch.
CanReceive ==
  /\ request.stage \in {"none", "replied"}
  /\ requests < (IF enableMetrics THEN MaxRequests ELSE MaxStaleRequests)
  /\ \A p \in Callers : pc[p] # "fetching"

\* GET /:id/summary | liquidity | volatility | health | insights, up to the
\* first await of buildSummary: the summary cache, then getMarketById, which
\* calls getMarkets.
PerMarketRequest(handler, id, window, lookback) ==
  /\ CanReceive
  /\ requests' = requests + 1
  /\ UNCHANGED <<now, calc, config, metrics, ticks, faults, routeMetrics, served>>
  /\ LET key == SummaryKey(id, window, lookback)
         received == [handler |-> handler, id |-> id, key |-> key,
                      limit |-> TradeLimit(lookback), stage |-> "lookup",
                      found |-> <<>>, code |-> 0, body |-> <<>>]
     IN IF CacheHit(summaryCache, key, now)
          THEN /\ request' = [received EXCEPT
                               !.stage = "replied", !.code = 200,
                               !.body = ViewOf(handler, summaryCache[key].value)]
               /\ UNCHANGED <<summaryCache, summarySources, callerVars>>
          ELSE /\ summaryCache' = CacheAfterGet(summaryCache, key, now)
               /\ UNCHANGED summarySources
               /\ request' = received
               /\ Launch(MarketsOp, NoOp)

\* Mutant of AfterLookup: a market that is not listed is reported as a
\* failure of the lookup.
AfterLookupMissFails ==
  /\ request.stage = "lookup"
  /\ pc[1] \in {"done", "failed"}
  /\ UNCHANGED <<now, calc, config, metrics, ticks, faults, routeMetrics, requests,
                 summaryCache, summarySources>>
  /\ IF pc[1] = "failed" \/ FindMarket(result[1].value, request.id) = NoMarket
       THEN /\ request' = Replied(500, ErrorBody(request.handler))
            /\ served' = served \cup {Failure("unavailable", 500,
                                              ErrorBody(request.handler))}
            /\ UNCHANGED callerVars
       ELSE /\ request' = [request EXCEPT
                             !.stage = "build",
                             !.found = FindMarket(result[1].value, request.id)]
            /\ Launch(OrderbookOp(request.id), TradesOp(request.id, request.limit))
            /\ UNCHANGED served

\* buildSummary after getMarketById: a failure reaches the handler's catch
\* (500), null is answered with 404, and for a market found getOrderbook and
\* getRecentTrades are called under Promise.all.
AfterLookup ==
  /\ request.stage = "lookup"
  /\ pc[1] \in {"done", "failed"}
  /\ UNCHANGED <<now, calc, config, metrics, ticks, faults, routeMetrics, requests,
                 summaryCache, summarySources>>
  /\ IF pc[1] = "failed"
       THEN /\ request' = Replied(500, ErrorBody(request.handler))
            /\ served' = served \cup {Failure(Category(result[1].error.cause), 500,
                                              ErrorBody(request.handler))}
            /\ UNCHANGED callerVars
     ELSE IF FindMarket(result[1].value, request.id) = NoMarket
       THEN /\ request' = Replied(404, NotFoundBody)
            /\ served' = served \cup {Failure("invalid", 404, NotFoundBody)}
            /\ UNCHANGED callerVars
       ELSE /\ request' = [request EXCEPT
                             !.stage = "build",
                             !.found = FindMarket(result[1].value, request.id)]
            /\ Launch(OrderbookOp(request.id), TradesOp(request.id, request.limit))
            /\ UNCHANGED served

\* When the value caller p's operation returned was fetched: at the end of
\* its successful attempt, or, for a value out of the client's cache, when
\* the entry was written.
DataTime(p) ==
  IF attempts[p] = <<>>
    THEN store[CacheKey(op[p])].expiresAt - INJECTIVE_API_CACHE_TTL_MS
    ELSE attempts[p][Len(attempts[p])].ended

\* When the two operations under Promise.all were called.
LaunchTime == IF attempts[1] = <<>> THEN startTime[1] ELSE attempts[1][1].at

\* The history of the summary built now under the key.
Fetched(sources, key) ==
  [k \in DOMAIN sources \cup {key} |->
     IF k = key
       THEN [orderbookAt |-> DataTime(1), tradesAt |-> DataTime(2),
             launchedAt |-> LaunchTime, builtAt |-> now]
       ELSE sources[k]]

\* buildSummary after Promise.all: the first rejection reaches the handler's
\* catch (500); with both values the envelope is built, cached and sent.
AfterBuild ==
  /\ request.stage = "build"
  /\ UNCHANGED <<now, calc, config, metrics, ticks, faults, routeMetrics, requests,
                 callerVars>>
  /\ \/ \E p \in Callers :
          /\ pc[p] = "failed"
          /\ request' = Replied(500, ErrorBody(request.handler))
          /\ served' = served \cup {Failure(Category(result[p].error.cause), 500,
                                            ErrorBody(request.handler))}
          /\ UNCHANGED <<summaryCache, summarySources>>
     \/ /\ \A p \in Callers : pc[p] = "done"
        /\ LET summary == SummaryOf(request.found, result[1].value, result[2].value)
           IN /\ summaryCache' = CacheSet(summaryCache, request.key, summary,
                                          CACHE_TTL_MS, now)
              /\ summarySources' = Fetched(summarySources, request.key)
              /\ request' = Replied(200, ViewOf(request.handler, summary))
        /\ UNCHANGED served

\* GET /active up to its first await: getMarkets.
ActiveRequest(window, limit) ==
  /\ CanReceive
  /\ requests' = requests + 1
  /\ UNCHANGED <<now, calc, config, metrics, ticks, faults, routeMetrics, served,
                 summaryCache, summarySources>>
  /\ request' = [handler |-> "active", id |-> "", key |-> "", limit |-> limit,
                 stage |-> "list", found |-> <<>>, code |-> 0, body |-> <<>>]
  /\ Launch(MarketsOp, NoOp)

\* listActiveMarkets after getMarkets: one getRecentTrades(market.id, 120)
\* per market under Promise.all (the upstream lists at most two markets).
AfterList ==
  /\ request.stage = "list"
  /\ pc[1] \in {"done", "failed"}
  /\ UNCHANGED <<now, calc, config, metrics, ticks, faults, routeMetrics, requests,
                 summaryCache, summarySources>>
  /\ IF pc[1] = "failed"
       THEN /\ request' = Replied(500, ErrorBody("active"))
            /\ served' = served \cup {Failure(Category(result[1].error.cause), 500,
                                              ErrorBody("active"))}
            /\ UNCHANGED callerVars
     ELSE IF result[1].value = <<>>
       THEN /\ request' = Replied(200, RankingBody(<<>>, request.limit))
            /\ UNCHANGED <<served, callerVars>>
       ELSE /\ request' = [request EXCEPT !.stage = "rank", !.found = result[1].value]
            /\ Launch(TradesOp(result[1].value[1].id, 120),
                      IF Len(result[1].value) > 1
                        THEN TradesOp(result[1].value[2].id, 120) ELSE NoOp)
            /\ UNCHANGED served

\* listActiveMarkets after Promise.all: the first rejection reaches the catch
\* (500); with every market's trades the ranking is sorted and sent.
AfterRank ==
  /\ request.stage = "rank"
  /\ UNCHANGED <<now, calc, config, metrics, ticks, faults, routeMetrics, requests,
                 summaryCache, summarySources, callerVars>>
  /\ \/ \E p \in Callers :
          /\ pc[p] = "failed"
          /\ request' = Replied(500, ErrorBody("active"))
          /\ served' = served \cup {Failure(Category(result[p].error.cause), 500,
                                            ErrorBody("active"))}
     \/ /\ \A p \in 1..Len(request.found) : pc[p] = "done"
        /\ request' = Replied(200,
                          RankingBody([p \in 1..Len(request.found) |->
                                         RankOf(request.found[p], result[p].value)],
                                      request.limit))
        /\ UNCHANGED served

\* GET /api/v1/metrics: getApiMetrics reads the metrics controller's own
\* InjectiveService instance.
MetricsRequest ==
  /\ CanReceive
  /\ requests' = requests + 1
  /\ request' = [handler |-> "metrics", id |-> "", key |-> "", limit |-> 0,
                 stage |-> "replied", found |-> <<>>, code |-> 200,
                 body |-> [summary |-> GetSummary(routeMetrics, now),
                           recent_failures |->
                             GetRecentFailures(routeMetrics, RecentFailuresShown)]]
  /\ UNCHANGED <<now, calc, config, metrics, ticks, faults, routeMetrics, served,
                 summaryCache, summarySources, callerVars>>

\* The process after start-up with ENABLE_API_METRICS on: the controllers are
\* the service's only users.
InitApi ==
  /\ concurrency = 0
  /\ rateLimitPerMinute \in {1, MaxRateLimit}
  /\ enableMetrics = TRUE
  /\ Constructed

NextApi ==
  \/ \E h \in PerMarketHandlers, id \in RequestIds, w \in Windows, lb \in Lookbacks :
       PerMarketRequest(h, id, w, lb)
  \/ AfterLookup
  \/ AfterBuild
  \/ \E w \in Windows, limit \in Limits : ActiveRequest(w, limit)
  \/ AfterList
  \/ AfterRank
  \/ MetricsRequest
  \/ \E p \in Callers : FetchOk(p)
  \/ \E p \in Callers : FetchNotOk(p, 404)
  \/ \E p \in Callers : FetchAbort(p)
  \/ Tick(INJECTIVE_API_TIMEOUT_MS)

SpecApi == InitApi /\ [][NextApi]_vars

\* The process with ENABLE_API_METRICS off, serving summaries of one market
\* under two lookbacks (two summary keys, two trade keys, one order-book
\* key), the clock advancing by the client's cache TTL.
StaleLookbacks == {2, 3}

InitStale ==
  /\ concurrency = 0
  /\ rateLimitPerMinute = MaxRateLimit
  /\ enableMetrics = FALSE
  /\ Constructed

NextStale ==
  \/ \E lb \in StaleLookbacks : PerMarketRequest("summary", "inj-usdt", "1h", lb)
  \/ AfterLookup
  \/ AfterBuild
  \/ \E p \in Callers : FetchOk(p)
  \/ \E p \in Callers : FetchNotOk(p, 404)
  \/ \E p \in Callers : FetchAbort(p)
  \/ Tick(INJECTIVE_API_CACHE_TTL_MS)

SpecStale == InitStale /\ [][NextStale]_vars

\* ------------------------------------------------------- claim vocabulary
LabelOf(p) == EndpointLabel(op[p])
Outcomes(p) == [i \in 1..Len(attempts[p]) |-> attempts[p][i].outcome]
VariantsTried(p) == [i \in 1..Len(attempts[p]) |-> attempts[p][i].variant]
MetricsOf(p) == SelectSeq(metrics, LAMBDA m : m.op = p)
SuccessFlags(h) == [i \in 1..Len(h) |-> h[i].success]
StatusCodes(h) == [i \in 1..Len(h) |-> h[i].statusCode]

\* How many of the instants ts lie in the 60 seconds that end at t.
WindowCount(ts, t) == Cardinality({j \in 1..Len(ts) : ts[j] > t - WindowMs /\ ts[j] <= t})

LabelsOfType(type) == {EndpointLabel(o) : o \in {x \in Ops : x.type = type}}

\* C1: for every label, the network calls issued in any 60 seconds ending at a
\* call never exceed the per-minute budget, and every call issued within the
\* current window is a timestamp the rate limiter recorded for that label.
C1_RateBudgetRespected ==
  \A L \in Labels :
    /\ \A i \in 1..Len(issued[L]) :
         WindowCount(issued[L], issued[L][i]) <= rateLimitPerMinute
    /\ WindowCount(issued[L], now) = WindowCount(rateLimitTracker[L], now)

\* C1 witness: two callers await a fetch for one label whose budget is used up.
C1_Witness ==
  \E p, q \in Callers :
    /\ p # q /\ pc[p] = "fetching" /\ pc[q] = "fetching" /\ LabelOf(p) = LabelOf(q)
    /\ WindowCount(issued[LabelOf(p)], now) = rateLimitPerMinute

\* C2: a rate-limit check fails exactly when the calls already granted for the
\* label within the 60 seconds before it number at least the budget: the first
\* B checks of a window pass, the next fails, and once 60 seconds have passed
\* since the recorded calls a check passes again.
C2_SlidingWindow ==
  \A p \in Callers : \A i \in 1..Len(attempts[p]) :
    LET a == attempts[p][i]
        before == {j \in 1..a.prior : issued[LabelOf(p)][j] > a.at - WindowMs}
    IN (a.outcome = "rate_limited") <=> (Cardinality(before) >= rateLimitPerMinute)

\* C2 witness: one caller was refused for a label, and a later check for the
\* same label passed although B calls had been granted before it.
C2_Witness ==
  \E p, q \in Callers : \E i \in 1..Len(attempts[p]), j \in 1..Len(attempts[q]) :
    /\ LabelOf(p) = LabelOf(q)
    /\ attempts[q][j].outcome = "rate_limited"
    /\ attempts[p][i].outcome # "rate_limited"
    /\ attempts[p][i].prior >= rateLimitPerMinute
    /\ attempts[p][i].at >= attempts[q][j].at + WindowMs

\* C3 (as claimed): markets, orderbook and trades have one budget each: the
\* calls of one endpoint type, whatever the market or limit, never exceed the
\* budget in any 60 seconds ending at one of them.
C3_OneBudgetPerEndpointType ==
  \A type \in EndpointTypes : \A L \in LabelsOfType(type) : \A i \in 1..Len(issued[L]) :
    Cardinality({c \in UNION {{<<M, j>> : j \in 1..Len(issued[M])} : M \in LabelsOfType(type)} :
                   /\ issued[c[1]][c[2]] > issued[L][i] - WindowMs
                   /\ issued[c[1]][c[2]] <= issued[L][i]})
      <= rateLimitPerMinute

\* C4: an operation that finds an unexpired entry under its cache key ends at
\* once with the cached value: no rate-limit timestamp, no network call, no
\* call outcome, no change to the cache.
C4_CacheHitIsSilent ==
  [][\A p \in Callers :
       (/\ pc[p] = "idle" /\ pc'[p] # "idle"
        /\ CacheKey(op'[p]) \in DOMAIN store
        /\ now < store[CacheKey(op'[p])].expiresAt)
       => /\ pc'[p] = "done"
          /\ result'[p] = OkResult(store[CacheKey(op'[p])].value)
          /\ attempts'[p] = <<>>
          /\ UNCHANGED <<rateLimitTracker, issued, metrics, store>>]_vars

\* C4 witness: an operation ended with a value without any attempt.
C4_Witness == \E p \in Callers : pc[p] = "done" /\ attempts[p] = <<>>

\* The TTL a set() call asked for (0 stands for "none passed").
AskedTtl(s) == IF s.ttlMs = 0 THEN INJECTIVE_API_CACHE_TTL_MS ELSE s.ttlMs

\* C5: a get() made before the TTL of the latest set() of its key has elapsed
\* returns the value set, one made after it has elapsed returns a miss; a set()
\* without TTL uses the instance default.
C5_TtlBoundsRetrieval ==
  (lastGet.key # "" /\ lastGet.since # NoSet) =>
    /\ lastGet.at < lastGet.since.at + AskedTtl(lastGet.since)
         => lastGet.hit /\ lastGet.value = lastGet.since.value
    /\ lastGet.at > lastGet.since.at + AskedTtl(lastGet.since) => ~lastGet.hit

\* C5 witness: a get() missed a value set without TTL, after the default TTL.
C5_Witness ==
  /\ lastGet.key # "" /\ lastGet.since # NoSet /\ lastGet.since.ttlMs = 0
  /\ lastGet.at > lastGet.since.at + INJECTIVE_API_CACHE_TTL_MS
  /\ ~lastGet.hit

\* C6 (as claimed): a get() at or after the expiry instant is a miss and
\* removes the entry.
C6_MissAtOrAfterExpiry ==
  (lastGet.key # "" /\ lastGet.since # NoSet
   /\ lastGet.at >= lastGet.since.at + AskedTtl(lastGet.since))
  => ~lastGet.hit /\ ~lastGet.kept

\* C6 (amended): a get() after the expiry instant is a miss and removes the
\* entry; a get() at exactly the expiry instant still returns the value.
C6_MissAfterExpiry ==
  (lastGet.key # "" /\ lastGet.since # NoSet) =>
    /\ lastGet.at > lastGet.since.at + AskedTtl(lastGet.since)
         => ~lastGet.hit /\ ~lastGet.kept
    /\ lastGet.at = lastGet.since.at + AskedTtl(lastGet.since)
         => lastGet.hit /\ lastGet.value = lastGet.since.value /\ lastGet.kept

\* C6 witness: a get() at exactly the expiry instant.
C6_Witness ==
  /\ lastGet.key # "" /\ lastGet.since # NoSet
  /\ lastGet.at = lastGet.since.at + AskedTtl(lastGet.since)

\* The value built from the body the upstream served to p's i-th attempt.
DataOf(p, i) ==
  Normalize(op[p].type, UpstreamPayload(op[p].type, attempts[p][i].payload),
            attempts[p][i].ended)

\* Caller p's operation has three variants; two answered 404, the third data.
FallbackRun(p) ==
  /\ op[p] \in Ops
  /\ NumVariants(op[p].type) = 3
  /\ Outcomes(p) = <<"http404", "http404", "ok">>

\* C7 (as claimed): with three variants, the first two answering 404 and the
\* third answering with data, the variants are tried in configured order, the
\* operation returns the third variant's normalised data, and the call history
\* gains one failed outcome per failing variant and then one success.
C7_FallbackRecordsEveryAttempt ==
  \A p \in Callers : FallbackRun(p) =>
    /\ VariantsTried(p) = <<1, 2, 3>>
    /\ pc[p] = "done" /\ result[p] = OkResult(DataOf(p, 3))
    /\ SuccessFlags(MetricsOf(p)) = <<FALSE, FALSE, TRUE>>
    /\ StatusCodes(MetricsOf(p)) = <<404, 404, 200>>

\* C7 (amended): as claimed, but the history gains these three outcomes only
\* when call metrics are enabled; with metrics disabled it gains nothing.
C7_FallbackRecordsWhenEnabled ==
  \A p \in Callers : FallbackRun(p) =>
    /\ VariantsTried(p) = <<1, 2, 3>>
    /\ pc[p] = "done" /\ result[p] = OkResult(DataOf(p, 3))
    /\ enableMetrics => /\ SuccessFlags(MetricsOf(p)) = <<FALSE, FALSE, TRUE>>
                        /\ StatusCodes(MetricsOf(p)) = <<404, 404, 200>>
    /\ ~enableMetrics => MetricsOf(p) = <<>>

\* C7 witness: a fallback run over three variants with metrics enabled.
C7_Witness == \E p \in Callers : FallbackRun(p) /\ enableMetrics

\* C8 (as claimed): an attempt answered with a non-success status other than
\* 404 is the operation's last: the operation fails with that upstream error
\* and no later variant is attempted.
C8_OtherStatusIsFatal ==
  \A p \in Callers : \A i \in 1..Len(attempts[p]) :
    attempts[p][i].outcome = "http500" =>
      /\ i = Len(attempts[p])
      /\ pc[p] = "failed"
      /\ result[p] = ErrResult(op[p], ApiError(500))

\* C9 (as claimed): an attempt refused by the rate-limit check is the
\* operation's last: no network call is issued for it, no later variant is
\* tried, and the operation fails with the rate-limit error.
C9_RateLimitAbortsOperation ==
  \A p \in Callers : \A i \in 1..Len(attempts[p]) :
    attempts[p][i].outcome = "rate_limited" =>
      /\ i = Len(attempts[p])
      /\ pc[p] = "failed"
      /\ result[p] = ErrResult(op[p], RateLimitError(LabelOf(p)))

TimedOut(p) == {i \in 1..Len(attempts[p]) : attempts[p][i].outcome = "timeout"}
AbortedCalls(p) ==
  SelectSeq(MetricsOf(p), LAMBDA m : ~m.success /\ m.error = "This operation was aborted")

\* What C10 says of the loop: a timed-out variant is never tried again, the
\* next variant is tried right after it, after the last variant the operation
\* has failed, and an operation ends with the timeout error only once every
\* variant has been tried and none has succeeded.
TimeoutFallsThrough(p) ==
  /\ \A i \in TimedOut(p) :
       /\ \A j \in 1..Len(attempts[p]) :
            j > i => attempts[p][j].variant > attempts[p][i].variant
       /\ attempts[p][i].variant < NumVariants(op[p].type)
            => /\ i < Len(attempts[p])
               /\ attempts[p][i + 1].variant = attempts[p][i].variant + 1
       /\ attempts[p][i].variant = NumVariants(op[p].type) => pc[p] = "failed"
  /\ (result[p].status = "error" /\ result[p].error.cause = TimeoutError)
       => /\ variantIdx[p] > NumVariants(op[p].type)
          /\ \A i \in 1..Len(attempts[p]) : attempts[p][i].outcome # "ok"

\* C10 (as claimed): every timed-out attempt is in the call history as a
\* failed call, and the loop falls through to the next variant.
C10_TimeoutRecordedAndSkipped ==
  \A p \in Callers :
    /\ Len(AbortedCalls(p)) = Cardinality(TimedOut(p))
    /\ TimeoutFallsThrough(p)

\* C10 (amended): every timed-out attempt is in the call history as a failed
\* call when call metrics are enabled, and in no history otherwise; the loop
\* falls through to the next variant either way.
C10_TimeoutSkippedRecordedWhenEnabled ==
  \A p \in Callers :
    /\ enableMetrics => Len(AbortedCalls(p)) = Cardinality(TimedOut(p))
    /\ ~enableMetrics => MetricsOf(p) = <<>>
    /\ TimeoutFallsThrough(p)

\* C10 witness: with metrics enabled, an operation whose first variant timed
\* out went through every variant and ended with the timeout error.
C10_Witness ==
  \E p \in Callers :
    /\ enableMetrics /\ 1 \in TimedOut(p) /\ Len(attempts[p]) = NumVariants(op[p].type)
    /\ pc[p] = "failed" /\ result[p] = ErrResult(op[p], TimeoutError)

\* The error an attempt ended with; a 404 response and a success are no error.
ErrorOf(p, i) ==
  LET a == attempts[p][i]
  IN CASE a.outcome = "timeout" -> TimeoutError
       [] a.outcome = "network" -> NetworkError
       [] a.outcome = "http500" -> ApiError(500)
       [] a.outcome = "rate_limited" -> RateLimitError(LabelOf(p))
       [] OTHER -> NoError

Erred(p) == {i \in 1..Len(attempts[p]) : ErrorOf(p, i) # NoError}

\* The last error observed during p's attempts; when every variant answered
\* 404 there is none, and the failure says that all variants failed.
LastObserved(p) ==
  IF Erred(p) = {} THEN AllFailedError
  ELSE ErrorOf(p, CHOOSE i \in Erred(p) : \A j \in Erred(p) : j <= i)

\* Caller p's loop has gone past the last variant.
Exhausted(p) == op[p] \in Ops /\ variantIdx[p] > NumVariants(op[p].type)

\* C11: an operation whose variants are exhausted without a success has
\* failed, returns no data, carries the last error observed during its
\* attempts, and the step in which an operation fails writes nothing to the
\* cache.
C11_ExhaustedFailsWithLastError ==
  /\ [](\A p \in Callers : Exhausted(p) =>
          /\ pc[p] = "failed"
          /\ \A i \in 1..Len(attempts[p]) : attempts[p][i].outcome # "ok"
          /\ result[p] = ErrResult(op[p], LastObserved(p))
          /\ result[p].value = <<>>)
  /\ [][\A p \in Callers : (pc[p] # "failed" /\ pc'[p] = "failed") =>
           \A k \in DOMAIN store' : k \in DOMAIN store /\ store'[k] = store[k]]_vars

\* C11 witness: a timeout, then a network error, then a 404 on the last
\* variant: the operation failed with the network error.
C11_Witness ==
  \E p \in Callers :
    /\ Exhausted(p) /\ Outcomes(p) = <<"timeout", "network", "http404">>
    /\ result[p].error.cause = NetworkError

\* The attempts of p for which a network call was made and has ended.
NetworkOutcomes == {"ok", "http404", "http500", "timeout", "network"}
EndedCalls(p) == SelectSeq(attempts[p], LAMBDA a : a.outcome \in NetworkOutcomes)

\* Label, success flag, latency and timestamp of the call outcomes, in order.
OutcomeFacts(h) ==
  [i \in 1..Len(h) |-> [endpoint |-> h[i].endpoint, success |-> h[i].success,
                        responseTimeMs |-> h[i].responseTimeMs,
                        timestamp |-> h[i].timestamp]]

ExpectedFacts(p) ==
  [i \in 1..Len(EndedCalls(p)) |->
     [endpoint |-> LabelOf(p), success |-> EndedCalls(p)[i].outcome = "ok",
      responseTimeMs |-> EndedCalls(p)[i].ended - EndedCalls(p)[i].at,
      timestamp |-> EndedCalls(p)[i].ended]]

\* C12 (as claimed): the call history holds, in order, exactly one outcome
\* per ended network attempt, with its label, success flag, latency and time.
C12_EveryAttemptRecorded ==
  \A p \in Callers : OutcomeFacts(MetricsOf(p)) = ExpectedFacts(p)

\* C12 (amended): the same when call metrics are enabled; with metrics
\* disabled the history stays empty.  An attempt the rate limiter refused
\* makes no network call and appends nothing in either case.
C12_EveryAttemptRecordedWhenEnabled ==
  /\ enableMetrics => \A p \in Callers : OutcomeFacts(MetricsOf(p)) = ExpectedFacts(p)
  /\ ~enableMetrics => metrics = <<>>

\* C12 witness: with metrics enabled, an operation whose first attempt timed
\* out and whose last succeeded, the recorded latency being the timeout.
C12_Witness ==
  \E p \in Callers :
    /\ enableMetrics /\ Len(EndedCalls(p)) >= 2
    /\ EndedCalls(p)[1].outcome = "timeout"
    /\ EndedCalls(p)[Len(EndedCalls(p))].outcome = "ok"
    /\ MetricsOf(p)[1].responseTimeMs >= INJECTIVE_API_TIMEOUT_MS

\* C13 (as claimed): two callers asking for the same cache key never both
\* miss the cache and both have an upstream call for it in flight.
C13_NoDuplicateUpstreamCall ==
  \A p, q \in Callers :
    (p # q /\ op[p] \in Ops /\ op[q] \in Ops /\ CacheKey(op[p]) = CacheKey(op[q]))
    => ~(pc[p] = "fetching" /\ pc[q] = "fetching")

\* How often the instant t is among the timestamps ts.
Occurrences(ts, t) == Cardinality({j \in 1..Len(ts) : ts[j] = t})

\* The network calls made for label L at the instant t: all of them, and
\* those that did not time out.
CallsAt(L, t) ==
  {c \in UNION {{<<p, i>> : i \in 1..Len(attempts[p])} : p \in Callers} :
     /\ LabelOf(c[1]) = L
     /\ attempts[c[1]][c[2]].at = t
     /\ attempts[c[1]][c[2]].outcome # "rate_limited"}
CallsNotTimedOutAt(L, t) ==
  {c \in CallsAt(L, t) : attempts[c[1]][c[2]].outcome # "timeout"}

\* C14 (as claimed): a timed-out attempt is not among the timestamps recorded
\* for its endpoint: they count only the calls that did not time out.
C14_TimeoutNotCounted ==
  \A p \in Callers : \A i \in TimedOut(p) :
    Occurrences(rateLimitTracker[LabelOf(p)], attempts[p][i].at)
      <= Cardinality(CallsNotTimedOutAt(LabelOf(p), attempts[p][i].at))

\* C14 (amended): a timed-out attempt stays among the timestamps recorded for
\* its endpoint, counted like any other call, until it is 60 seconds old.
C14_TimeoutStaysCounted ==
  \A p \in Callers : \A i \in TimedOut(p) :
    attempts[p][i].at > now - WindowMs =>
      Occurrences(rateLimitTracker[LabelOf(p)], attempts[p][i].at)
        = Cardinality(CallsAt(LabelOf(p), attempts[p][i].at))

\* C14 witness: with a budget of one call, the variant tried right after a
\* timeout is refused by the rate limiter.
C14_Witness ==
  \E p \in Callers :
    /\ rateLimitPerMinute = 1 /\ Len(attempts[p]) = 2
    /\ Outcomes(p) = <<"timeout", "rate_limited">>
    /\ attempts[p][1].at > now - WindowMs

\* An order book or a list of trades that holds a not-a-number price or size.
HasNaN(type, v) ==
  IF type = "orderbook"
    THEN \E side \in {v.bids, v.asks} : \E i \in 1..Len(side) :
           side[i][1] = NaN \/ side[i][2] = NaN
  ELSE IF type = "trades"
    THEN \E i \in 1..Len(v) : v[i].price = NaN \/ v[i].size = NaN
  ELSE FALSE

\* C15 (as claimed): no order book or list of trades holding a not-a-number
\* price or size is returned or cached; an operation whose response body
\* fails validation ends in an error.
C15_MalformedBodyIsFatal ==
  /\ \A p \in Callers :
       (op[p] \in Ops /\ pc[p] = "done") => ~HasNaN(op[p].type, result[p].value)
  /\ \A o \in Ops :
       CacheKey(o) \in DOMAIN store => ~HasNaN(o.type, store[CacheKey(o)].value)

\* C16: the failures an HTTP consumer receives keep the three categories
\* apart: two failure replies of different categories (data temporarily
\* unavailable, request invalid, caller must back off) never carry the same
\* status and body.  The handlers' catch answers every acquisition failure
\* with the same 500 and the same fixed text, so this is violated: a market
\* list whose three variants all failed and a market list refused by the
\* rate limiter are answered alike.
C16_CategoriesDistinguishable ==
  \A a \in served, b \in served :
    a.category # b.category => <<a.code, a.body>> # <<b.code, b.body>>

\* The identifiers of the market list an operation returned.
ListedIds(list) == {list[i].id : i \in 1..Len(list)}

PerMarket(r) == r.handler \in PerMarketHandlers

\* C17: a per-market request (summary, liquidity, volatility, health,
\* insights) is answered 404 exactly when the market list was obtained and
\* does not hold the requested identifier, and with a 5xx status whenever an
\* acquisition operation failed; a request answered 200 is answered with the
\* summary of the requested market, which the market list held: from the
\* build stage with the descriptor found in the list, or from the summary
\* cache, whose entries are summaries of listed markets under their own key.
C17_StatusByOutcome ==
  /\ [](\A k \in DOMAIN summaryCache :
          /\ k = SummaryKey(summaryCache[k].value.market_id, "1h", 2)
          /\ \E i \in 1..Len(UpstreamMarkets) :
               summaryCache[k].value.market_id
                 \in ListedIds(NormalizeMarkets(UpstreamMarkets[i])))
  /\ [][(PerMarket(request') /\ request'.stage = "replied" /\ request' # request)
        => IF request.stage \in {"lookup", "build"}
             THEN LET failed == \E p \in Callers : pc[p] = "failed"
                      absent == /\ request.stage = "lookup"
                                /\ pc[1] = "done"
                                /\ request.id \notin ListedIds(result[1].value)
                  IN /\ request'.code = 404 <=> absent
                     /\ failed => request'.code \in 500..599
                     /\ request'.code = 200 =>
                          /\ request.stage = "build"
                          /\ request.found.id = request.id
                          /\ request'.body.summary.market_id = request.id
             ELSE /\ request'.code = 200
                  /\ request'.key \in DOMAIN summaryCache
                  /\ request'.body.summary.market_id = request'.id]_vars

\* A per-market request was answered 404 from an obtained market list after
\* another one was answered 500 because an acquisition operation failed.
C17_Witness ==
  /\ PerMarket(request)
  /\ request.stage = "replied"
  /\ request.code = 404
  /\ op[1] = MarketsOp
  /\ pc[1] = "done"
  /\ request.id \notin ListedIds(result[1].value)
  /\ \E f \in served : f.code = 500 /\ f.category = "unavailable"

MarketsLabel == EndpointLabel(MarketsOp)

\* C18: getMarketById(id) is a filter over the list getMarkets returns.
\* While it runs, the only operation is getMarkets on one caller and no
\* upstream call is issued for any other resource; with the market list in
\* the cache it issues no upstream call at all and has the cached list at
\* once.  When getMarkets has returned, a market whose id equals the one
\* asked for is returned if the list holds one, and null (answered 404)
\* otherwise.
C18_LookupIsFilter ==
  /\ [](request.stage = "lookup" =>
          /\ op[1] = MarketsOp
          /\ op[2] = NoOp
          /\ pc[2] = "idle")
  /\ [][request'.stage = "lookup" =>
          /\ \A l \in Labels \ {MarketsLabel} : issued'[l] = issued[l]
          /\ (request.stage # "lookup" /\ CacheHit(store, CacheKey(MarketsOp), now)) =>
               /\ issued' = issued
               /\ pc'[1] = "done"
               /\ result'[1].value = store[CacheKey(MarketsOp)].value]_vars
  /\ [][(request.stage = "lookup" /\ request'.stage # "lookup" /\ pc[1] = "done") =>
          IF request.id \in ListedIds(result[1].value)
            THEN /\ request'.stage = "build"
                 /\ request'.found.id = request.id
                 /\ \E i \in 1..Len(result[1].value) :
                      request'.found = result[1].value[i]
            ELSE /\ request'.stage = "replied"
                 /\ request'.code = 404]_vars

\* The second of two lookups found its market in the list the first one had
\* fetched and not found its own in: one upstream call for both.
C18_Witness ==
  /\ request.stage = "build"
  /\ request.found.id = request.id
  /\ Len(issued[MarketsLabel]) = 1
  /\ \E f \in served : f.code = 404

BookPrices == {0, 1000, 1001, 1003}
BookSizes == {0, 3000, 150000, Huge}
Levels == BookPrices \X BookSizes
Sides(n) == UNION {[1..k -> Levels] : k \in 0..n}
MaxBids == 2
MaxAsks == 1
Books ==
  {[bids |-> SortLevels(b, TRUE), asks |-> SortLevels(a, FALSE)] :
     b \in Sides(MaxBids), a \in Sides(MaxAsks)}

\* Trades with positive finite prices and sizes, prices being powers of two.
MaxTrades == 3
TradeValues == {[price |-> p, size |-> z] : p \in {1, 2, 8}, z \in {10, 700000}}
TradeLists == UNION {[1..k -> TradeValues] : k \in 0..MaxTrades}
FewTrades == {t \in TradeLists : Len(t) <= 1 /\ \A i \in 1..Len(t) : t[i].price # 2}

\* Price series for computeRealizedVol, non-positive prices included.
MaxPrices == 4
PriceSeries == UNION {[1..k -> {0, 1, 2, 8}] : k \in 0..MaxPrices}

\* The baselineVol argument: left out, or a number.
Baselines == {<<>>, <<0>>, <<-500>>, <<500>>, <<2000>>, <<NaN>>}

\* Arguments of normalize and of the score functions.
Numbers == {-Huge, -10, 0, 5, 10, 15, 20, Huge, NaN}
Scores == {0, 29, 30, 39, 40, 100, NaN}
SignalInputs ==
  {[liquidity |-> [spread_bps |-> sp, depth_25bps |-> d],
    volatility |-> [trend |-> tr],
    activity |-> [score |-> a],
    health |-> [score |-> h]] :
     sp \in {0, 2500, 2501, NaN}, d \in {19999, 20000, NaN},
     tr \in {18000, 18001, NaN}, a \in {29, 30, NaN}, h \in {39, 40, NaN}}

\* The five metric computations of a market summary, in the order of the code.
SummaryMetrics(orderbook, trades) ==
  LET liquidity == ComputeLiquidityMetrics(orderbook, trades)
      volatility == ComputeVolatilityMetrics(trades, <<>>)
      activity == ComputeActivityMetrics(trades)
      health == ComputeHealthMetrics(liquidity, volatility, activity)
  IN [liquidity |-> liquidity, volatility |-> volatility, activity |-> activity,
      health |-> health,
      signals |-> BuildSignals([liquidity |-> liquidity, volatility |-> volatility,
                                activity |-> activity, health |-> health])]

Call(fn, args, value) ==
  /\ calc.fn = "none"
  /\ calc' = [fn |-> fn, args |-> args, result |-> value]
  /\ UNCHANGED <<now, rateLimitPerMinute, enableMetrics, store, rateLimitTracker,
                 metrics, pc, op, variantIdx, startTime, lastError, result, ticks,
                 faults, concurrency, attempts, issued, lastSet, lastGet, request,
                 requests, summaryCache, summarySources,
                 routeMetrics, served>>

NormalizeCall(v, lo, hi) == Call("normalize", <<v, lo, hi>>, normalize(v, lo, hi))

ComputeSpreadBpsCall(orderbook) ==
  Call("computeSpreadBps", <<orderbook>>, ComputeSpreadBps(orderbook))

ComputeLiquidityMetricsCall(orderbook, trades) ==
  Call("computeLiquidityMetrics", <<orderbook, trades>>,
       ComputeLiquidityMetrics(orderbook, trades))

ComputeRealizedVolCall(prices) ==
  Call("computeRealizedVol", <<prices>>, ComputeRealizedVol(prices))

ComputeVolatilityMetricsCall(trades, baselineVol) ==
  Call("computeVolatilityMetrics", <<trades, baselineVol>>,
       ComputeVolatilityMetrics(trades, baselineVol))

ComputeActivityMetricsCall(trades) ==
  Call("computeActivityMetrics", <<trades>>, ComputeActivityMetrics(trades))

ComputeHealthMetricsCall(l, v, a) ==
  Call("computeHealthMetrics", <<l, v, a>>,
       ComputeHealthMetrics([score |-> l], [score |-> v], [score |-> a]))

BuildSignalsCall(m) == Call("buildSignals", <<m>>, BuildSignals(m))

\* Trade lists of every kind of price (none, equal, moving, zero, not a
\* number), sizes that are not numbers included, over an empty book and a
\* book quoted on both sides.
QuotedBooks ==
  {[bids |-> <<>>, asks |-> <<>>],
   [bids |-> <<<<1000, 150000>>>>, asks |-> <<<<1001, 150000>>>>]}
PricedTrades ==
  UNION {[1..k -> {[price |-> p, size |-> z] : p \in {0, 1, 8, NaN}, z \in {10, NaN}}] :
           k \in 0..MaxTrades}

SummaryMetricsCall(orderbook, trades) ==
  Call("summaryMetrics", <<orderbook, trades>>, SummaryMetrics(orderbook, trades))

\* Response bodies of the order-book endpoint: levels in any order, under
\* either naming convention (prices and quantities in units of 10^-9).
MaxRawBids == 3
MaxRawAsks == 2
RawLevels ==
  {[price |-> p, quantity |-> 500] : p \in {10000, 10140, 10200}}
    \cup {[price |-> 10140, quantity |-> 70]}
RawSides(n) == UNION {[1..k -> RawLevels] : k \in 0..n}
OrderbookBodies ==
  {[bids |-> b, asks |-> a] : b \in RawSides(MaxRawBids), a \in RawSides(MaxRawAsks)}
    \cup {[buys |-> b, sells |-> a] :
             b \in RawSides(MaxRawBids), a \in RawSides(MaxRawAsks)}

\* Response bodies of the trades endpoint: each trade dated by an ISO text
\* in `timestamp`, by an epoch number in `executedAt`, or not at all.
MaxRawTrades == 3
RawTrades ==
  {[price |-> 10000, quantity |-> 500, timestamp |-> IsoText(ms)] : ms \in {1000, 2000}}
    \cup {[price |-> 10140, quantity |-> 70, executedAt |-> ms] : ms \in {1500, 3000}}
    \cup {[price |-> 10200, quantity |-> 500]}
TradeBodies == {[trades |-> r] : r \in UNION {[1..k -> RawTrades] : k \in 0..MaxRawTrades}}
ReceivedAt == 2500   \* Date.now() when the body is mapped

\* getOrderbook, from the parsed body to the value it returns.
NormalizeOrderbookCall(data) ==
  Call("getOrderbook", <<data>>, NormalizeOrderbook(data))

\* getRecentTrades, from the parsed body to the value it returns.
NormalizeTradesCall(data, t) ==
  Call("getRecentTrades", <<data, t>>, NormalizeTrades(data, t))

InitCalc ==
  /\ rateLimitPerMinute = MaxRateLimit
  /\ enableMetrics = TRUE
  /\ concurrency = 0
  /\ Constructed

\* One call per behaviour: once a function has returned, nothing follows.
NextCalc ==
  /\ calc.fn = "none"
  /\ \/ \E v \in Numbers, lo \in Numbers, hi \in Numbers : NormalizeCall(v, lo, hi)
     \/ \E b \in Books : ComputeSpreadBpsCall(b)
     \/ \E b \in Books, t \in FewTrades : ComputeLiquidityMetricsCall(b, t)
     \/ \E ps \in PriceSeries : ComputeRealizedVolCall(ps)
     \/ \E t \in TradeLists, b \in Baselines : ComputeVolatilityMetricsCall(t, b)
     \/ \E t \in TradeLists : ComputeActivityMetricsCall(t)
     \/ \E l \in Scores, v \in Scores, a \in Scores : ComputeHealthMetricsCall(l, v, a)
     \/ \E m \in SignalInputs : BuildSignalsCall(m)
     \/ \E b \in Books, t \in FewTrades : SummaryMetricsCall(b, t)
     \/ \E b \in QuotedBooks, t \in PricedTrades : SummaryMetricsCall(b, t)
     \/ \E data \in OrderbookBodies : NormalizeOrderbookCall(data)
     \/ \E data \in TradeBodies : NormalizeTradesCall(data, ReceivedAt)

SpecCalc == InitCalc /\ [][NextCalc]_vars

CalcTypeOK == calc.fn \in {"none", "normalize", "computeSpreadBps",
                           "computeLiquidityMetrics", "computeRealizedVol",
                           "computeVolatilityMetrics", "computeActivityMetrics",
                           "computeHealthMetrics", "buildSignals", "summaryMetrics"}
\* ---------------------------------------------------------------- signals
\* The call made a list of signals: from these metrics, this list.
SignalsMade == calc.fn \in {"buildSignals", "summaryMetrics"}
SignalsIn == IF calc.fn = "buildSignals" THEN calc.args[1] ELSE calc.result
SignalsOut == IF calc.fn = "buildSignals" THEN calc.result ELSE calc.result.signals

\* The rules in their stated order, and the comparison each one stands for.
RuleCodes == <<"LIQ_SPREAD_WIDE", "LIQ_DEPTH_THIN", "VOL_TREND_UP",
               "ACTIVITY_LOW", "HEALTH_DETERIORATING">>
RuleLevels == <<"warn", "warn", "warn", "warn", "critical">>
RuleHolds(r, m) ==
  IF r = 1 THEN m.liquidity.spread_bps # NaN /\ m.liquidity.spread_bps > 2500
  ELSE IF r = 2 THEN m.liquidity.depth_25bps # NaN /\ m.liquidity.depth_25bps < 20000
  ELSE IF r = 3 THEN m.volatility.trend # NaN /\ m.volatility.trend > 18000
  ELSE IF r = 4 THEN m.activity.score # NaN /\ m.activity.score < 30
  ELSE m.health.score # NaN /\ m.health.score < 40
RuleOf(code) == CHOOSE r \in 1..5 : RuleCodes[r] = code

\* C21: buildSignals never returns an empty list; when no threshold rule
\* fires it returns exactly one signal, of level info, and an info signal is
\* never returned together with a warn or critical signal.
C21_SignalsNeverEmpty ==
  SignalsMade =>
    /\ Len(SignalsOut) >= 1
    /\ (\A r \in 1..5 : ~RuleHolds(r, SignalsIn)) =>
         /\ Len(SignalsOut) = 1
         /\ SignalsOut[1].level = "info"
         /\ SignalsOut[1].code = "HEALTH_OK"
    /\ (\E i \in 1..Len(SignalsOut) : SignalsOut[i].level = "info") =>
         \A i \in 1..Len(SignalsOut) : SignalsOut[i].level \notin {"warn", "critical"}

\* buildSignals was called on metrics none of whose rules fires, one of them
\* not a number, and returned the single info signal.
C21_Witness ==
  /\ calc.fn = "buildSignals"
  /\ \A r \in 1..5 : ~RuleHolds(r, SignalsIn)
  /\ SignalsIn.health.score = NaN
  /\ Len(SignalsOut) = 1
  /\ SignalsOut[1].level = "info"

\* C22: the rules are evaluated in the fixed order spread > 25 bps, depth <
\* 20,000, trend > 1.8, activity < 30, health < 40; each appends one signal
\* (warn, the last critical) exactly when its strict comparison holds, so the
\* output is a subsequence of that order, without repeats, of at most five.
C22_RulesInFixedOrder ==
  SignalsMade =>
    LET fired == SelectSeq(SignalsOut, LAMBDA g : g.level # "info")
    IN /\ Len(fired) <= 5
       /\ \A i \in 1..Len(fired) :
            /\ \E r \in 1..5 : RuleCodes[r] = fired[i].code
            /\ fired[i].level = RuleLevels[RuleOf(fired[i].code)]
       /\ \A r \in 1..5 :
            RuleHolds(r, SignalsIn) <=>
              \E i \in 1..Len(fired) : fired[i].code = RuleCodes[r]
       /\ \A i \in 1..Len(fired), j \in 1..Len(fired) :
            i < j => RuleOf(fired[i].code) < RuleOf(fired[j].code)

\* All five rules fired in one call, and a call sat exactly on the thresholds.
C22_Witness ==
  /\ calc.fn = "buildSignals"
  /\ \/ Len(SignalsOut) = 5
     \/ /\ SignalsIn.liquidity.spread_bps = 2500
        /\ SignalsIn.liquidity.depth_25bps = 20000
        /\ SignalsIn.volatility.trend = 18000
        /\ SignalsIn.activity.score = 30
        /\ SignalsIn.health.score = 39
        /\ Len(SignalsOut) = 1
        /\ SignalsOut[1].level = "critical"
\* ----------------------------------------------------------------- scores
\* Valid inputs: an order book whose levels are finite and not negative,
\* trades whose price and size are finite and positive.
ValidBook(b) ==
  /\ \A i \in 1..Len(b.bids) : \A k \in 1..2 : IsFinite(b.bids[i][k]) /\ b.bids[i][k] >= 0
  /\ \A i \in 1..Len(b.asks) : \A k \in 1..2 : IsFinite(b.asks[i][k]) /\ b.asks[i][k] >= 0
ValidTrades(t) ==
  \A i \in 1..Len(t) : /\ IsFinite(t[i].price) /\ t[i].price > 0
                       /\ IsFinite(t[i].size) /\ t[i].size > 0
IsScore(x) == x \in 0..100

\* C23: every score computeLiquidityMetrics, computeVolatilityMetrics,
\* computeActivityMetrics and computeHealthMetrics produce is an integer in
\* [0,100] for valid inputs, empty books and empty trade lists included.
C23_ScoresInRange ==
  /\ (calc.fn = "computeLiquidityMetrics"
        /\ ValidBook(calc.args[1]) /\ ValidTrades(calc.args[2]))
       => IsScore(calc.result.score)
  /\ (calc.fn = "computeVolatilityMetrics" /\ ValidTrades(calc.args[1]))
       => IsScore(calc.result.score)
  /\ (calc.fn = "computeActivityMetrics" /\ ValidTrades(calc.args[1]))
       => IsScore(calc.result.score)
  /\ (calc.fn = "computeHealthMetrics" /\ \A k \in 1..3 : IsScore(calc.args[k]))
       => IsScore(calc.result.score)
  /\ (calc.fn = "summaryMetrics"
        /\ ValidBook(calc.args[1]) /\ ValidTrades(calc.args[2]))
       => /\ IsScore(calc.result.liquidity.score)
          /\ IsScore(calc.result.volatility.score)
          /\ IsScore(calc.result.activity.score)
          /\ IsScore(calc.result.health.score)

\* Two bids of the largest finite size at one price, one ask next to them.
C23_OverflowingBook ==
  /\ calc.fn = "computeLiquidityMetrics"
  /\ calc.args[1] = [bids |-> <<<<1000, Huge>>, <<1000, Huge>>>>,
                     asks |-> <<<<1001, 3000>>>>]
  /\ calc.args[2] = <<>>
  /\ calc.result.score = NaN
\* ----------------------------------------------------------------- spread
\* C24: for every order book with at least one bid and one ask,
\* computeSpreadBps returns a value >= 0, and 0 only when the best bid equals
\* the best ask.
C24_SpreadNonNegative ==
  (/\ calc.fn = "computeSpreadBps"
   /\ calc.args[1].bids # <<>>
   /\ calc.args[1].asks # <<>>)
    => /\ calc.result # NaN
       /\ calc.result >= 0
       /\ calc.result = 0 => calc.args[1].bids[1][1] = calc.args[1].asks[1][1]

\* A crossed book: best bid 1003 above best ask 1000.
C24_CrossedBook ==
  /\ calc.fn = "computeSpreadBps"
  /\ calc.args[1].bids # <<>> /\ calc.args[1].bids[1][1] = 1003
  /\ calc.args[1].asks # <<>> /\ calc.args[1].asks[1][1] = 1000
  /\ calc.result < 0

\* A best bid at price 0 against a best ask of 1000: the spread comes out 0.
C24_ZeroPricedBid ==
  /\ calc.fn = "computeSpreadBps"
  /\ calc.args[1].bids # <<>> /\ calc.args[1].bids[1][1] = 0
  /\ calc.args[1].asks # <<>> /\ calc.args[1].asks[1][1] = 1000
  /\ calc.result = 0
\* ----------------------------------------------------- realized volatility
RealizedVolOf == calc.fn = "computeRealizedVol"
PricesGiven == calc.args[1]

\* C25: for every price sequence shorter than 2, and for every price sequence
\* containing a non-positive price, computeRealizedVol returns 0.
C25_ZeroOnShortOrBadPrices ==
  (/\ RealizedVolOf
   /\ \/ Len(PricesGiven) < 2
      \/ \E i \in 1..Len(PricesGiven) : PricesGiven[i] <= 0)
    => calc.result = 0

\* The series 1, 2, 8, 0: the last pair is skipped, the two before it give
\* the returns ln 2 and ln 4, whose deviation is ln(2) / 2.
C25_BadPriceAmongGood ==
  /\ RealizedVolOf
  /\ PricesGiven = <<1, 2, 8, 0>>
  /\ calc.result = 500

\* The half of the claim that holds: fewer than two prices give 0.
C25_ShortSeriesIsZero ==
  (RealizedVolOf /\ Len(PricesGiven) < 2) => calc.result = 0

\* C26: for every constant sequence of positive prices of length >= 2,
\* computeRealizedVol returns exactly 0.
C26_ConstantSeriesIsZero ==
  (/\ RealizedVolOf
   /\ Len(PricesGiven) >= 2
   /\ \A i \in 1..Len(PricesGiven) : PricesGiven[i] > 0 /\ PricesGiven[i] = PricesGiven[1])
    => calc.result = 0

\* Constant series of the shortest and of the longest length were measured.
C26_Witness ==
  /\ RealizedVolOf
  /\ PricesGiven \in {<<8, 8>>, <<2, 2, 2, 2>>}
  /\ calc.result = 0
\* -------------------------------------------------------------- normalize
NormalizeOf == calc.fn = "normalize"
InUnitRange(x) == x # NaN /\ 0 <= x /\ x <= 100
FiniteNumbers == {x \in Numbers : IsFinite(x)}

\* What the claim says of normalize(v, lo, hi) for the v of the call and for
\* every other v with the same lo and hi.
NormalizeAsClaimed(v, lo, hi) ==
  /\ InUnitRange(normalize(v, lo, hi))
  /\ \A w \in FiniteNumbers : w >= v => normalize(w, lo, hi) >= normalize(v, lo, hi)
  /\ hi > lo => normalize(v, lo, hi) = Clamp(Div(Sub(v, lo), Sub(hi, lo), 100), 0, 100)
  /\ hi <= lo => normalize(v, lo, hi) = 0

\* C27: normalize(v, min, max) is always in [0,1], is non-decreasing in v for
\* fixed min and max, equals clamp((v - min) / (max - min), 0, 1) when
\* max > min, and is 0 whenever max <= min.
C27_NormalizeInUnitRange ==
  (NormalizeOf /\ \A k \in 1..3 : IsFinite(calc.args[k]))
    => /\ calc.result = normalize(calc.args[1], calc.args[2], calc.args[3])
       /\ NormalizeAsClaimed(calc.args[1], calc.args[2], calc.args[3])

\* Three finite arguments whose differences leave the range of a double:
\* (v - min) and (max - min) are both Infinity, their quotient not a number.
C27_OverflowingRange ==
  /\ NormalizeOf
  /\ calc.args = <<Huge, -Huge, Huge>>
  /\ calc.result = NaN

\* Where the differences stay finite, normalize is as the claim says.
C27_HoldsWithoutOverflow ==
  (/\ NormalizeOf
   /\ \A k \in 1..3 : IsFinite(calc.args[k])
   /\ ~(calc.args[2] = -Huge /\ calc.args[3] = Huge))
    => NormalizeAsClaimed(calc.args[1], calc.args[2], calc.args[3])
\* ------------------------------------------------------- volatility trend
VolatilityOf == calc.fn = "computeVolatilityMetrics"
BaselineGiven == calc.args[2]

\* C28: computeVolatilityMetrics never divides by zero: when the baseline is
\* 0 (realized volatility 0 with no baseline supplied, or a supplied baseline
\* of 0) the trend is 1; when no baseline is supplied and realized volatility
\* is positive, the baseline is 0.8 times realized and the trend is 1.25.
C28_TrendWithoutDivisionByZero ==
  VolatilityOf =>
    /\ IsFinite(calc.result.trend)
    /\ IsFinite(calc.result.score)
    /\ (\/ BaselineGiven = <<0>>
        \/ BaselineGiven = <<>> /\ calc.result.realized = 0)
         => calc.result.trend = 10000
    /\ (BaselineGiven = <<>> /\ calc.result.realized > 0)
         => /\ Baseline(calc.result.realized, BaselineGiven)
                 = 8 * calc.result.realized   \* in tenths: 0.8 * realized
            /\ calc.result.trend = 12500

\* A baseline of 0 was supplied for trades of positive realized volatility,
\* and the trend came out 1.
C28_Witness ==
  /\ VolatilityOf
  /\ BaselineGiven = <<0>>
  /\ calc.result.realized > 0
  /\ calc.result.trend = 10000

\* No baseline was supplied for trades of positive realized volatility, and
\* the trend came out 1.25.
C28_DefaultBaselineSeen ==
  /\ VolatilityOf
  /\ BaselineGiven = <<>>
  /\ calc.result.realized > 0
  /\ calc.result.trend = 12500

\* ============================================================================
\* ApiMetricsService on its own: calls are recorded one after another, and the
\* recent failures are read.  The clock moves one millisecond with every
\* recorded call, so an entry's timestamp is its serial number.
\* ============================================================================
MaxRecords == 4    \* calls recorded in one behaviour
MaxLimit == 3      \* largest limit asked of getRecentFailures
MaxHeadroom == 2   \* entries an initial history may lack to the cap

\* An ApiCallMetrics object (its optional fields left out).
HistoryEntry(t, ok) ==
  [endpoint |-> "markets", method |-> "GET", success |-> ok,
   responseTimeMs |-> 0, timestamp |-> t]

\* this.metrics.recordCall({ ..., timestamp: Date.now() })
RecordCallCall(ok) ==
  /\ ticks < MaxRecords
  /\ ticks' = ticks + 1
  /\ now' = now + 1
  /\ metrics' = recordCall(metrics, HistoryEntry(now + 1, ok))
  /\ calc' = NoCalc
  /\ UNCHANGED <<rateLimitPerMinute, enableMetrics, store, rateLimitTracker, pc,
                 op, variantIdx, startTime, lastError, result, faults,
                 concurrency, attempts, issued, lastSet, lastGet, request,
                 requests, summaryCache, summarySources,
                 routeMetrics, served>>

\* this.metrics.getRecentFailures(limit)
GetRecentFailuresCall(limit) ==
  /\ calc' = [fn |-> "getRecentFailures", args |-> <<limit>>,
              result |-> GetRecentFailures(metrics, limit)]
  /\ UNCHANGED <<now, rateLimitPerMinute, enableMetrics, store, rateLimitTracker,
                 metrics, pc, op, variantIdx, startTime, lastError, result, ticks,
                 faults, concurrency, attempts, issued, lastSet, lastGet, request,
                 requests, summaryCache, summarySources,
                 routeMetrics, served>>

NextHistory ==
  \/ \E ok \in BOOLEAN : RecordCallCall(ok)
  \/ \E limit \in 0..MaxLimit : GetRecentFailuresCall(limit)

\* A service that has recorded nothing yet.
InitFailures ==
  /\ rateLimitPerMinute = MaxRateLimit
  /\ enableMetrics = TRUE
  /\ concurrency = 0
  /\ Constructed

SpecFailures == InitFailures /\ [][NextHistory]_vars

\* A service that has recorded successful calls up to, or almost up to, the
\* cap of its history.
InitHistory ==
  /\ rateLimitPerMinute = MaxRateLimit
  /\ enableMetrics = TRUE
  /\ concurrency = 0
  /\ now \in (maxMetrics - MaxHeadroom)..maxMetrics
  /\ metrics = [i \in 1..now |-> HistoryEntry(i, TRUE)]
  /\ lastSet = [k \in CacheKeys |-> NoSet]
  /\ lastGet = NoGet
  /\ store = [k \in {} |-> 0]
  /\ rateLimitTracker = [l \in Labels |-> <<>>]
  /\ pc = [p \in Callers |-> "idle"]
  /\ op = [p \in Callers |-> NoOp]
  /\ variantIdx = [p \in Callers |-> 0]
  /\ startTime = [p \in Callers |-> 0]
  /\ lastError = [p \in Callers |-> NoError]
  /\ result = [p \in Callers |-> NoResult]
  /\ ticks = 0
  /\ faults = 0
  /\ attempts = [p \in Callers |-> <<>>]
  /\ issued = [l \in Labels |-> <<>>]
  /\ request = NoRequest
  /\ requests = 0
  /\ summaryCache = [k \in {} |-> 0]
  /\ summarySources = [k \in {} |-> 0]
  /\ routeMetrics = <<>>
  /\ served = {}
  /\ calc = NoCalc

SpecHistory == InitHistory /\ [][NextHistory]_vars

\* C29: the call history is append-only and capped: it holds at most
\* maxMetrics entries, in the order they were recorded; once the cap is
\* exceeded it is exactly the most recent entries, the oldest dropped first.
\* (Entry number k carries timestamp k, and `now` is the number recorded.)
C29_HistoryCappedMostRecent ==
  /\ [](/\ Len(metrics) <= maxMetrics
        /\ Len(metrics) = IF now < maxMetrics THEN now ELSE maxMetrics
        /\ \A i \in 1..Len(metrics) :
             metrics[i].timestamp = now - Len(metrics) + i)
  /\ [][metrics' # metrics =>
          /\ Len(metrics') = IF Len(metrics) < maxMetrics THEN Len(metrics) + 1
                                                          ELSE maxMetrics
          /\ metrics'[Len(metrics')].timestamp = now'
          /\ \A i \in 1..(Len(metrics') - 1) :
               metrics'[i] = metrics[Len(metrics) + 1 - Len(metrics') + i]]_vars

\* Two calls beyond the cap, the last of them a failure: the history is
\* full and its two oldest entries are gone.
C29_Witness ==
  /\ now = maxMetrics + 2
  /\ Len(metrics) = maxMetrics
  /\ metrics[1].timestamp = 3
  /\ ~metrics[maxMetrics].success

\* C30: for every n >= 0, getRecentFailures(n) returns the n most recent
\* failed outcomes of the retained history (all of them when there are fewer
\* than n), most recent first; never a successful outcome, never more than n.
C30_RecentFailures ==
  calc.fn = "getRecentFailures" =>
    LET n == calc.args[1]
        failures == SelectSeq(metrics, LAMBDA m : ~m.success)
    IN /\ Len(calc.result) = IF Len(failures) < n THEN Len(failures) ELSE n
       /\ Len(calc.result) <= n
       /\ \A i \in 1..Len(calc.result) :
            /\ ~calc.result[i].success
            /\ calc.result[i] = failures[Len(failures) + 1 - i]

\* getRecentFailures(0) on a history holding failures returned them all.
C30_ZeroLimitReturnsAll ==
  /\ calc.fn = "getRecentFailures"
  /\ calc.args[1] = 0
  /\ Len(calc.result) = 2
  /\ calc.result[1].timestamp > calc.result[2].timestamp

\* For n >= 1 the function is as the claim says.
C30_HoldsForPositiveLimit ==
  (calc.fn = "getRecentFailures" /\ calc.args[1] >= 1) =>
    LET n == calc.args[1]
        failures == SelectSeq(metrics, LAMBDA m : ~m.success)
    IN /\ Len(calc.result) = IF Len(failures) < n THEN Len(failures) ELSE n
       /\ \A i \in 1..Len(calc.result) :
            /\ ~calc.result[i].success
            /\ calc.result[i] = failures[Len(failures) + 1 - i]

\* ============================================================================
\* The windowed summary: calls on two endpoints are recorded while time
\* passes, and getSummary is read with the default or with a given window.
\* ============================================================================
MaxSummaryRecords == 3   \* calls recorded in one behaviour
MaxWindows == 2          \* the clock stops after this many default windows
SummaryEndpoints == {"markets", "orderbook/inj-usdt"}
SummaryWindows == {SummaryWindowMs, WindowMs}
SummarySteps == {WindowMs, SummaryWindowMs - WindowMs}

\* this.metrics.recordCall({ endpoint, method: 'GET', success, responseTimeMs,
\* timestamp: Date.now() }); a failure took 30 ms, a success 10 ms.
RecordAt(endpoint, ok) ==
  /\ ticks < MaxSummaryRecords
  /\ ticks' = ticks + 1
  /\ metrics' = recordCall(metrics,
                  [endpoint |-> endpoint, method |-> "GET", success |-> ok,
                   responseTimeMs |-> IF ok THEN 10 ELSE 30, timestamp |-> now])
  /\ calc' = NoCalc
  /\ UNCHANGED <<now, rateLimitPerMinute, enableMetrics, store, rateLimitTracker, pc,
                 op, variantIdx, startTime, lastError, result, faults,
                 concurrency, attempts, issued, lastSet, lastGet, request,
                 requests, summaryCache, summarySources,
                 routeMetrics, served>>

\* Time passes between two calls.
PassTime(step) ==
  /\ now + step <= MaxWindows * SummaryWindowMs
  /\ now' = now + step
  /\ calc' = NoCalc
  /\ UNCHANGED <<rateLimitPerMinute, enableMetrics, store, rateLimitTracker,
                 metrics, pc, op, variantIdx, startTime, lastError, result, ticks,
                 faults, concurrency, attempts, issued, lastSet, lastGet, request,
                 requests, summaryCache, summarySources,
                 routeMetrics, served>>

\* this.metrics.getSummary(windowMs)
GetSummaryCall(windowMs) ==
  /\ calc' = [fn |-> "getSummary", args |-> <<windowMs>>,
              result |-> GetSummaryOver(metrics, now, windowMs)]
  /\ UNCHANGED <<now, rateLimitPerMinute, enableMetrics, store, rateLimitTracker,
                 metrics, pc, op, variantIdx, startTime, lastError, result, ticks,
                 faults, concurrency, attempts, issued, lastSet, lastGet, request,
                 requests, summaryCache, summarySources,
                 routeMetrics, served>>

NextSummary ==
  \/ \E e \in SummaryEndpoints, ok \in BOOLEAN : RecordAt(e, ok)
  \/ \E step \in SummarySteps : PassTime(step)
  \/ \E w \in SummaryWindows : GetSummaryCall(w)

SpecSummary == InitFailures /\ [][NextSummary]_vars

\* ---------------------------------------------------------------- summary
SummaryRead == calc.fn = "getSummary"
\* The retained outcomes whose timestamp lies within the window of the call.
InWindow == SelectSeq(metrics, LAMBDA m : m.timestamp >= now - calc.args[1])
StatKeys == DOMAIN calc.result.endpointStats
RECURSIVE SumOver(_, _)
SumOver(keys, field) ==
  IF keys = {} THEN 0
  ELSE LET k == CHOOSE x \in keys : TRUE
       IN calc.result.endpointStats[k][field] + SumOver(keys \ {k}, field)

\* C31: getSummary(window) is computed from the retained history over
\* exactly the outcomes whose timestamp lies within the trailing window:
\* totalCalls = successCount + failureCount, successRate = successCount /
\* totalCalls (0 when there are no calls), and the per-endpoint breakdown
\* partitions the same outcomes, its counts summing to the totals.
C31_SummaryOverWindow ==
  SummaryRead =>
    /\ calc.result.totalCalls = Len(InWindow)
    /\ calc.result.successCount = Len(SelectSeq(InWindow, LAMBDA m : m.success))
    /\ calc.result.totalCalls = calc.result.successCount + calc.result.failureCount
    /\ calc.result.successRate =
         IF calc.result.totalCalls = 0 THEN 0
         ELSE (calc.result.successCount * 10000) \div calc.result.totalCalls
    /\ StatKeys = {<<InWindow[i].method, InWindow[i].endpoint>> :
                     i \in 1..Len(InWindow)}
    /\ \A k \in StatKeys :
         /\ calc.result.endpointStats[k].calls =
              Len(SelectSeq(InWindow, LAMBDA m : <<m.method, m.endpoint>> = k))
         /\ calc.result.endpointStats[k].calls =
              calc.result.endpointStats[k].successes
              + calc.result.endpointStats[k].failures
    /\ SumOver(StatKeys, "calls") = calc.result.totalCalls
    /\ SumOver(StatKeys, "successes") = calc.result.successCount
    /\ SumOver(StatKeys, "failures") = calc.result.failureCount

\* A summary over the default window that left an older outcome out, kept one
\* lying exactly on the cutoff, and covered both endpoints.
C31_Witness ==
  /\ SummaryRead
  /\ calc.args[1] = SummaryWindowMs
  /\ Len(metrics) = 3
  /\ calc.result.totalCalls = 2
  /\ calc.result.successCount = 1
  /\ InWindow[1].timestamp = now - SummaryWindowMs
  /\ Cardinality(StatKeys) = 2
\* ------------------------------------------------- order-book normalisation
OrderbookReturned == calc.fn = "getOrderbook"
BodyGiven == calc.args[1]
RawBids == IF "bids" \in DOMAIN BodyGiven THEN BodyGiven.bids ELSE BodyGiven.buys
RawAsks == IF "asks" \in DOMAIN BodyGiven THEN BodyGiven.asks ELSE BodyGiven.sells
\* The same levels under the other naming convention.
OtherConvention ==
  IF "bids" \in DOMAIN BodyGiven THEN [buys |-> RawBids, sells |-> RawAsks]
  ELSE [bids |-> RawBids, asks |-> RawAsks]
\* The side holds the levels of the response, each as often as the response.
SameLevels(side, raws) ==
  /\ Len(side) = Len(raws)
  /\ \A i \in 1..Len(raws) :
       Cardinality({j \in 1..Len(side) : side[j] = ToLevel(raws[i])})
         = Cardinality({j \in 1..Len(raws) : ToLevel(raws[j]) = ToLevel(raws[i])})

\* C32: getOrderbook returns bids in descending and asks in ascending price
\* order whatever the order of the levels in the response, and accepts the
\* levels under either naming convention (bids/asks or buys/sells), with the
\* same result for the same levels.
C32_OrderbookSortedEitherConvention ==
  OrderbookReturned =>
    /\ \A i \in 1..Len(calc.result.bids), j \in 1..Len(calc.result.bids) :
         i < j => calc.result.bids[i][1] >= calc.result.bids[j][1]
    /\ \A i \in 1..Len(calc.result.asks), j \in 1..Len(calc.result.asks) :
         i < j => calc.result.asks[i][1] <= calc.result.asks[j][1]
    /\ SameLevels(calc.result.bids, RawBids)
    /\ SameLevels(calc.result.asks, RawAsks)
    /\ calc.result = NormalizeOrderbook(OtherConvention)

\* A body in the buys/sells convention with its bids in ascending and its
\* asks in descending order came back sorted.
C32_Witness ==
  /\ OrderbookReturned
  /\ "buys" \in DOMAIN BodyGiven
  /\ Len(RawBids) = 3 /\ Len(RawAsks) = 2
  /\ RawBids[1].price < RawBids[2].price /\ RawBids[2].price < RawBids[3].price
  /\ RawAsks[1].price > RawAsks[2].price
  /\ calc.result.bids[1][1] = 1020 /\ calc.result.bids[3][1] = 1000
  /\ calc.result.asks[1][1] < calc.result.asks[2][1]

\* ------------------------------------------------------ trade normalisation
TradesReturned == calc.fn = "getRecentTrades"
RawTradesGiven == calc.args[1].trades
\* The instant a trade of the response is dated with.
InstantOf(raw) ==
  IF "timestamp" \in DOMAIN raw THEN raw.timestamp.ms
  ELSE IF "executedAt" \in DOMAIN raw THEN raw.executedAt
  ELSE calc.args[2]

LiveEntries(st, t) ==
  [k \in {j \in DOMAIN st : ~CacheExpired(st[j], t)} |-> st[k]]
\* Caller p's awaited fetch resolves with a success response.
Succeeds(p) == pc[p] = "fetching" /\ pc'[p] = "done"

\* C34: an acquisition that fails (timeout, upstream error, rate limit,
\* exhausted variants) leaves the cache as it was: an entry is written for a
\* key only in the step in which a success response for that key was
\* received and normalised, and it holds the value returned.
C34_FailedAcquisitionLeavesCache ==
  [][/\ ((\A p \in Callers : ~Succeeds(p)) /\ now' = now)
          => LiveEntries(store', now) = LiveEntries(store, now)
     /\ \A k \in DOMAIN store' :
          (k \notin DOMAIN store \/ store'[k] # store[k])
            => \E p \in Callers :
                 /\ Succeeds(p)
                 /\ CacheKey(op[p]) = k
                 /\ result'[p] = OkResult(store'[k].value)]_vars

\* An operation failed after an attempt timed out, nothing is cached under
\* its key, and the entry another operation wrote is still there.
C34_Witness ==
  \E p \in Callers :
    /\ pc[p] = "failed"
    /\ \E i \in 1..Len(attempts[p]) : attempts[p][i].outcome = "timeout"
    /\ CacheKey(op[p]) \notin DOMAIN store
    /\ DOMAIN store # {}
\* ------------------------------------------------------ attempts per variant
\* The attempts of p that reached the network.
NetworkAttempts(p) == SelectSeq(attempts[p], LAMBDA a : a.outcome # "rate_limited")
Finished(p) == pc[p] \in {"done", "failed"}

\* C35: on a cache miss an operation makes at most one network attempt per
\* configured variant, in configured order, hence at most three, and, every
\* awaited fetch settling, it ends with a returned value or an error.
C35_OneAttemptPerVariantThenEnds ==
  /\ [](\A p \in Callers :
          pc[p] # "idle" =>
            /\ Len(NetworkAttempts(p)) <= NumVariants(op[p].type)
            /\ NumVariants(op[p].type) = 3
            /\ \A i \in 1..Len(NetworkAttempts(p)) :
                 /\ NetworkAttempts(p)[i].variant \in 1..NumVariants(op[p].type)
                 /\ \A j \in 1..Len(NetworkAttempts(p)) :
                      i < j => NetworkAttempts(p)[i].variant < NetworkAttempts(p)[j].variant
            /\ Finished(p) => result[p].status = IF pc[p] = "done" THEN "ok" ELSE "error")
  /\ \A p \in Callers : (pc[p] = "fetching") ~> Finished(p)

\* An operation ended in an error after one network attempt on each of the
\* three variants.
C35_Witness ==
  \E p \in Callers :
    /\ pc[p] = "failed"
    /\ Len(NetworkAttempts(p)) = 3
    /\ \A i \in 1..3 : NetworkAttempts(p)[i].variant = i
    /\ result[p].status = "error"
\* ------------------------------------------------ rejected rate-limit checks
\* The checks of p that checkRateLimit rejected.
Rejections(p) == SelectSeq(attempts[p], LAMBDA a : a.outcome = "rate_limited")
\* A check of some caller is rejected in this step.
RejectedNow == \E p \in Callers : Len(Rejections(p))' > Len(Rejections(p))

\* C36: a rejected rate-limit check records nothing: in a step in which
\* checkRateLimit rejects, the timestamps kept for every label stay as they
\* were, and at all times the timestamps kept for a label are times at which
\* a network attempt under that label was let through.
C36_RejectedCheckRecordsNothing ==
  /\ [](\A l \in Labels : \A i \in 1..Len(rateLimitTracker[l]) :
          \E j \in 1..Len(issued[l]) : issued[l][j] = rateLimitTracker[l][i])
  /\ [][RejectedNow => rateLimitTracker' = rateLimitTracker]_vars

\* An operation ended in the rate-limit error while its label holds exactly
\* as many timestamps as the budget allows.
C36_Witness ==
  \E p \in Callers :
    /\ pc[p] = "failed"
    /\ result[p].error.cause.kind = "rate_limit"
    /\ Len(Rejections(p)) > 0
    /\ Len(rateLimitTracker[EndpointLabel(op[p])]) = rateLimitPerMinute
\* ------------------------------------------------- staleness of summaries
\* A per-market handler sends a summary in this step.
SummarySent ==
  /\ requests' = requests + 1 \/ request.stage = "build"
  /\ request'.stage = "replied"
  /\ request'.code = 200
  /\ request'.handler \in PerMarketHandlers
\* The request received in this step finds its summary, unexpired, in the
\* controller's cache.
FoundInSummaryCache ==
  /\ requests' = requests + 1
  /\ request'.handler \in PerMarketHandlers
  /\ request'.key \in DOMAIN summaryCache
  /\ now <= summaryCache[request'.key].expiresAt
\* How long ago the older of the two inputs of the summary sent was fetched.
AgeSent ==
  LET s == summarySources'[request'.key]
  IN now - (IF s.orderbookAt < s.tradesAt THEN s.orderbookAt ELSE s.tradesAt)
\* How long the calls under Promise.all took when the summary sent was built.
FetchDuration ==
  LET s == summarySources'[request'.key] IN s.builtAt - s.launchedAt

\* C37: every summary the HTTP layer returns was computed from order-book
\* and trade data fetched no longer ago than the controller's summary-cache
\* TTL plus the client's response-cache TTL plus the duration of the fetch,
\* and a summary found in the controller's cache is returned at once, without
\* any call of the client.
C37_SummaryStalenessBounded ==
  [][/\ SummarySent =>
          AgeSent <= CACHE_TTL_MS + INJECTIVE_API_CACHE_TTL_MS + FetchDuration
     /\ FoundInSummaryCache =>
          /\ SummarySent
          /\ request'.body = ViewOf(request'.handler, summaryCache[request'.key].value)
          /\ UNCHANGED <<pc, op, attempts, issued, store, rateLimitTracker, metrics,
                         summaryCache>>]_vars

\* A summary was built from an order book out of the client's cache, then
\* sent again out of the controller's cache when the order book was as old
\* as both TTLs together.
C37_Witness ==
  /\ request.stage = "replied" /\ request.code = 200
  /\ request.key \in DOMAIN summarySources
  /\ summarySources[request.key].builtAt < now
  /\ summarySources[request.key].orderbookAt < summarySources[request.key].launchedAt
  /\ now - summarySources[request.key].orderbookAt
       = CACHE_TTL_MS + INJECTIVE_API_CACHE_TTL_MS
  /\ requests = 3
  /\ \A p \in Callers : pc[p] = "done"
\* ------------------------------------------------ trend without a baseline
SummaryComputed == calc.fn = "summaryMetrics"
NoBaselineGiven == calc.fn = "computeVolatilityMetrics" /\ calc.args[2] = <<>>
Codes(signals) == {signals[i].code : i \in 1..Len(signals)}

\* C38: without an external baseline, as buildSummary calls it, the trend
\* computeVolatilityMetrics reports is 1.25 when the realized volatility is
\* positive and 1 otherwise, whatever the trades, so the rule trend > 1.8
\* never fires and no summary carries the signal VOL_TREND_UP.
C38_NoTrendSignalWithoutBaseline ==
  /\ NoBaselineGiven =>
       /\ calc.result.trend \in {10000, 12500}
       /\ calc.result.trend = 12500 <=> Gt(calc.result.realized, 0)
  /\ SummaryComputed =>
       /\ calc.result.volatility.trend \in {10000, 12500}
       /\ calc.result.volatility.trend = 12500
            <=> Gt(calc.result.volatility.realized, 0)
       /\ "VOL_TREND_UP" \notin Codes(calc.result.signals)

\* A summary over trades whose prices move: realized volatility positive,
\* trend 1.25, and signals without VOL_TREND_UP.
C38_Witness ==
  /\ SummaryComputed
  /\ Len(calc.args[2]) = 3
  /\ calc.result.volatility.realized > 0
  /\ calc.result.volatility.trend = 12500
  /\ calc.result.signals # <<>>
  /\ "VOL_TREND_UP" \notin Codes(calc.result.signals)
\* ------------------------------------------------- books without a top
LiquidityComputed == calc.fn = "computeLiquidityMetrics"
SideEmpty == calc.args[1].bids = <<>> \/ calc.args[1].asks = <<>>
\* Spread, depth, turnover and imbalance 0, and a score of 45.
NoTopLiquidity ==
  [spread_bps |-> 0, depth_25bps |-> 0, turnover |-> 0, imbalance |-> 0,
   score |-> 45]

\* C39: for an order book with a side empty, whatever the trades,
\* computeLiquidityMetrics reports spread, depth, turnover and imbalance 0
\* and a score of 45, and the signals built on it hold the thin-depth
\* warning and never the wide-spread warning.
C39_NoTopOfBookLiquidity ==
  /\ (LiquidityComputed /\ SideEmpty) => calc.result = NoTopLiquidity
  /\ (SummaryComputed /\ SideEmpty) =>
       /\ calc.result.liquidity = NoTopLiquidity
       /\ "LIQ_DEPTH_THIN" \in Codes(calc.result.signals)
       /\ "LIQ_SPREAD_WIDE" \notin Codes(calc.result.signals)

\* A summary over a book with bids and no asks, and one trade: liquidity
\* score 45 and the thin-depth warning.
C39_Witness ==
  /\ SummaryComputed
  /\ calc.args[1].asks = <<>>
  /\ Len(calc.args[1].bids) = 2
  /\ calc.args[1].bids[1] = <<1003, 150000>>
  /\ Len(calc.args[2]) = 1
  /\ calc.result.liquidity.score = 45
  /\ "LIQ_DEPTH_THIN" \in Codes(calc.result.signals)
====
